---- MODULE Spec2Model ----
(***************************************************************************)
(* Recipe search of the paint mixing service                               *)
(* (src/src/services/paint_mixing.rs, PaintMixingService).                 *)
(*                                                                         *)
(* One call of find_combinations is modelled as a state machine: the       *)
(* strategy is selected and its combinations are enumerated, the rayon     *)
(* workers process the combinations in any order, and the results are      *)
(* collected, sorted and cut to five.                                      *)
(*                                                                         *)
(* Text is modelled as a sequence of one-character strings, so that        *)
(* to_lowercase, trim and contains are computed, not assumed.              *)
(* A pigment is its row number in PaintCatalog; a reflectance curve is     *)
(* abstracted to what the search observes of it, the Delta E of the        *)
(* optimized mixture, which a worker draws from ErrVals.  A recipe keeps   *)
(* its paints and its error.                                               *)
(***************************************************************************)
EXTENDS Integers, Sequences, FiniteSets, TLC

(* ---------------------------------------------------------------------- *)
(* Bounds                                                                   *)
(* ---------------------------------------------------------------------- *)
\* pools of up to MaxPool pigments, selected freely from the catalog
MaxPool == 4
\* and the longer pools of up to MaxRun consecutive catalog rows
MaxRun == 5
\* Delta E values of a finite computation are drawn from 0..MaxErr
MaxErr == 1

(* ---------------------------------------------------------------------- *)
(* Text                                                                     *)
(* ---------------------------------------------------------------------- *)
UpperChars ==
  <<"A","B","C","D","E","F","G","H","I","J","K","L","M",
    "N","O","P","Q","R","S","T","U","V","W","X","Y","Z">>
LowerChars ==
  <<"a","b","c","d","e","f","g","h","i","j","k","l","m",
    "n","o","p","q","r","s","t","u","v","w","x","y","z">>

\* char::to_lowercase on the letters used here
ToLowerChar(c) ==
  IF \E i \in DOMAIN UpperChars : UpperChars[i] = c
  THEN LowerChars[CHOOSE i \in DOMAIN UpperChars : UpperChars[i] = c]
  ELSE c

\* str::to_lowercase
ToLowercase(s) == [i \in DOMAIN s |-> ToLowerChar(s[i])]

IsWhitespace(c) == c = " "

\* str::trim: drops the leading and the trailing whitespace
Trim(s) ==
  IF \A i \in DOMAIN s : IsWhitespace(s[i]) THEN <<>>
  ELSE LET lo == CHOOSE i \in DOMAIN s :
                   /\ ~IsWhitespace(s[i])
                   /\ \A j \in 1..(i - 1) : IsWhitespace(s[j])
           hi == CHOOSE i \in DOMAIN s :
                   /\ ~IsWhitespace(s[i])
                   /\ \A j \in (i + 1)..Len(s) : IsWhitespace(s[j])
       IN SubSeq(s, lo, hi)

\* str::contains
Contains(s, pat) ==
  \E i \in 1..(Len(s) - Len(pat) + 1) : SubSeq(s, i, i + Len(pat) - 1) = pat

(* ---------------------------------------------------------------------- *)
(* String literals of the source                                            *)
(* ---------------------------------------------------------------------- *)
STitaniumWhiteLower == <<"t","i","t","a","n","i","u","m"," ","w","h","i","t","e">>
SIvoryBlackLower == <<"i","v","o","r","y"," ","b","l","a","c","k">>
SWarmWhiteLower == <<"w","a","r","m"," ","w","h","i","t","e">>
SBlack == <<"b","l","a","c","k">>
SGrey == <<"g","r","e","y">>
SGray == <<"g","r","a","y">>
STitaniumWhite == <<"T","i","t","a","n","i","u","m"," ","W","h","i","t","e">>
SIvoryBlack == <<"I","v","o","r","y"," ","B","l","a","c","k">>
SInvalidMixChoice ==
  <<"I","n","v","a","l","i","d"," ","m","i","x"," ","c","h","o","i","c","e">>

SBlackWhite2 ==
  <<"b","l","a","c","k"," ","+"," ","w","h","i","t","e"," ","+"," ",
    "2"," ","c","o","l","o","u","r","s">>
SBlackWhite3 ==
  <<"b","l","a","c","k"," ","+"," ","w","h","i","t","e"," ","+"," ",
    "3"," ","c","o","l","o","u","r","s">>
SAllAvailable ==
  <<"a","l","l"," ","a","v","a","i","l","a","b","l","e"," ",
    "c","o","l","o","u","r","s">>
SNeutralGreys == <<"n","e","u","t","r","a","l"," ","g","r","e","y","s">>
SNoBlack == <<"n","o"," ","b","l","a","c","k">>

(* ---------------------------------------------------------------------- *)
(* Inputs                                                                   *)
(* ---------------------------------------------------------------------- *)
\* The pigment names a pool is drawn from; a pigment is a row number.
PaintCatalog ==
  << <<"W","a","r","m"," ","W","h","i","t","e">>,
     SIvoryBlack,
     <<"C","a","d","m","i","u","m"," ","R","e","d">>,
     STitaniumWhite,
     <<"P","a","y","n","e","s"," ","G","r","e","y">>,
     <<"M","a","r","s"," ","B","l","a","c","k">>,
     <<" ","t","i","t","a","n","i","u","m"," ","w","h","i","t","e">> >>

NameOf(p) == PaintCatalog[p]

\* The strategy strings a call is made with.
MixChoices ==
  << SBlackWhite2,
     SBlackWhite3,
     SAllAvailable,
     SNeutralGreys,
     SNoBlack,
     <<"N","o"," ","B","l","a","c","k">>,
     <<"n","o"," ","b","l","a","c","k"," ">>,
     <<"a","l","l"," ","c","o","l","o","u","r","s">> >>

RECURSIVE SeqOfSet(_)
\* the elements of a set of numbers in increasing order
SeqOfSet(S) ==
  IF S = {} THEN <<>>
  ELSE LET m == CHOOSE x \in S : \A y \in S : x <= y
       IN <<m>> \o SeqOfSet(S \ {m})

\* A pool lists distinct catalog rows in catalog order: any selection of up
\* to MaxPool rows, or up to MaxRun consecutive rows.
Pools ==
  { SeqOfSet(S) : S \in { T \in SUBSET DOMAIN PaintCatalog : Cardinality(T) <= MaxPool } }
  \cup
  { SeqOfSet(r[1]..r[2]) :
      r \in { q \in (DOMAIN PaintCatalog) \X (DOMAIN PaintCatalog) : q[2] - q[1] < MaxRun } }

\* f64 values of a recipe's error: a finite Delta E, or NaN
NaN == -1
ErrVals == 0..MaxErr

(* ---------------------------------------------------------------------- *)
(* State                                                                    *)
(* ---------------------------------------------------------------------- *)
VARIABLES
  paint_data,          \* the pool: sequence of pigments
  mix_choice,          \* index into MixChoices of the strategy string
  target_reflectance,  \* "finite" or "nonfinite": does the target hold a NaN or an infinity
  pc,                  \* "call", "processing", "done"
  branch,              \* the match arm find_combinations took
  combinations,        \* the combinations the strategy enumerated, in order
  slots,               \* per combination: Pending, or the worker's Option<MixingResult>
  overtaken,           \* a worker finished before the worker of the first combination
  results,             \* the Vec the strategy returned
  ret,                 \* what find_combinations returned
  opt,                 \* one call of optimize_weights and of create_result: its locals
  lhtss,               \* one call of a method of LHTSS: its locals
  srv,                 \* one call of a server function of server_fns/paint.rs: its locals
  auth                 \* the accounts, tokens and clock, and the requests of server_fns/auth.rs

\* the state of the search, and the state of the calls followed on their own
searchVars ==
  <<paint_data, mix_choice, target_reflectance, pc, branch,
    combinations, slots, overtaken, results, ret>>
callVars == <<opt, lhtss, srv, auth>>
vars == <<searchVars, callVars>>

\* no call of that kind is under way
Idle == [pc |-> "idle"]

Pending == [tag |-> "Pending"]
None == [tag |-> "None"]
Some(r) == [tag |-> "Some", val |-> r]

NoReturn == [tag |-> "NoReturn"]
Ok(list) == [tag |-> "Ok", list |-> list]
Err(kind, msg) == [tag |-> "Err", kind |-> kind, msg |-> msg]

Init ==
  /\ paint_data \in Pools
  /\ mix_choice \in DOMAIN MixChoices
  /\ target_reflectance \in {"finite", "nonfinite"}
  /\ pc = "call"
  /\ branch = "none"
  /\ combinations = <<>>
  /\ slots = <<>>
  /\ overtaken = FALSE
  /\ results = <<>>
  /\ ret = NoReturn
  /\ opt = Idle
  /\ lhtss = Idle
  /\ srv = Idle
  /\ auth = Idle


(* ---------------------------------------------------------------------- *)
(* Helpers on sequences                                                     *)
(* ---------------------------------------------------------------------- *)
\* Iterator::take(n)
Take(s, n) == SubSeq(s, 1, IF Len(s) < n THEN Len(s) ELSE n)

\* usize::saturating_sub
SaturatingSub(a, b) == IF a > b THEN a - b ELSE 0

(* ---------------------------------------------------------------------- *)
(* Name tests of the strategies                                             *)
(* ---------------------------------------------------------------------- *)
IsTitaniumWhite(p) == Trim(ToLowercase(NameOf(p))) = STitaniumWhiteLower
\* a looser test: any name that contains "black"
IsAnyBlack(p) == Contains(ToLowercase(NameOf(p)), SBlack)

IsIvoryBlack(p) == Trim(ToLowercase(NameOf(p))) = SIvoryBlackLower
IsWarmWhite(p) == Trim(ToLowercase(NameOf(p))) = SWarmWhiteLower
IsGrey(p) ==
  Contains(ToLowercase(NameOf(p)), SGrey) \/ Contains(ToLowercase(NameOf(p)), SGray)
\* the test without to_lowercase
NameContainsBlackCaseSensitive(p) == Contains(NameOf(p), SBlack)

NameContainsBlack(p) == Contains(ToLowercase(NameOf(p)), SBlack)

\* paint_data.iter().find(..): the first pigment of the pool named so
HasWhite(pool) == \E i \in DOMAIN pool : IsTitaniumWhite(pool[i])
FindWhite(pool) ==
  pool[CHOOSE i \in DOMAIN pool :
         IsTitaniumWhite(pool[i]) /\ \A j \in 1..(i - 1) : ~IsTitaniumWhite(pool[j])]
HasBlack(pool) == \E i \in DOMAIN pool : IsIvoryBlack(pool[i])
FindBlack(pool) ==
  pool[CHOOSE i \in DOMAIN pool :
         IsIvoryBlack(pool[i]) /\ \A j \in 1..(i - 1) : ~IsIvoryBlack(pool[j])]

(* ---------------------------------------------------------------------- *)
(* find_combinations: the match on the strategy string                      *)
(* ---------------------------------------------------------------------- *)
MatchArm(choice) ==
  LET s == ToLowercase(choice)
  IN IF s = SBlackWhite2 THEN "bw2"
     ELSE IF s = SBlackWhite3 THEN "bw3"
     ELSE IF s = SAllAvailable THEN "all"
     ELSE IF s = SNeutralGreys THEN "greys"
     ELSE IF s = SNoBlack THEN "noblack"
     ELSE "invalid"

(* ---------------------------------------------------------------------- *)
(* find_black_white_n_colors                                                *)
(* ---------------------------------------------------------------------- *)
\* the filter without its warm white clause
OtherPaintsKeepWarmWhite(pool) ==
  LET Keep(p) == ~IsTitaniumWhite(p) /\ ~IsIvoryBlack(p)
  IN SelectSeq(pool, Keep)

\* other_paints: the pool without white, black and warm white
OtherPaints(pool) ==
  LET Keep(p) == ~IsTitaniumWhite(p) /\ ~IsIvoryBlack(p) /\ ~IsWarmWhite(p)
  IN SelectSeq(pool, Keep)

\* the nested loops over other_paints for n_extra == 2:
\* for (i, paint2) in enumerate() { for paint3 in skip(i + 1) { push } }
RECURSIVE PairLoop(_, _, _, _)
PairLoop(prefix, o, i, j) ==
  IF i > Len(o) THEN <<>>
  ELSE IF j > Len(o) THEN PairLoop(prefix, o, i + 1, i + 2)
  ELSE <<prefix \o <<o[i], o[j]>>>> \o PairLoop(prefix, o, i, j + 1)

\* the nested loops over other_paints for n_extra == 3
RECURSIVE TripleLoop(_, _, _, _, _)
TripleLoop(prefix, o, i, j, k) ==
  IF i > Len(o) THEN <<>>
  ELSE IF j > Len(o) THEN TripleLoop(prefix, o, i + 1, i + 2, i + 3)
  ELSE IF k > Len(o) THEN TripleLoop(prefix, o, i, j + 1, j + 2)
  ELSE <<prefix \o <<o[i], o[j], o[k]>>>> \o TripleLoop(prefix, o, i, j, k + 1)

BlackWhiteCombinations(pool, n_extra) ==
  LET white == FindWhite(pool)
      black == FindBlack(pool)
      other_paints == OtherPaints(pool)
  IN IF n_extra = 2 THEN PairLoop(<<white, black>>, other_paints, 1, 2)
     ELSE IF n_extra = 3 THEN TripleLoop(<<white, black>>, other_paints, 1, 2, 3)
     ELSE <<>>

(* ---------------------------------------------------------------------- *)
(* find_all_available_colors, find_no_black: contiguous windows             *)
(* ---------------------------------------------------------------------- *)
\* the loop with the bound len.saturating_sub(n_paints)
WindowsOfShort(pool, n_paints) ==
  [i \in 1..SaturatingSub(Len(pool), n_paints) |-> SubSeq(pool, i, i + n_paints - 1)]

\* for i in 0..len.saturating_sub(n_paints - 1) { push(pool[i..i + n_paints]) }
WindowsOf(pool, n_paints) ==
  [i \in 1..SaturatingSub(Len(pool), n_paints - 1) |-> SubSeq(pool, i, i + n_paints - 1)]

\* for n_paints in lo..=hi
RECURSIVE WindowLoop(_, _, _)
WindowLoop(pool, lo, hi) ==
  IF lo > hi THEN <<>>
  ELSE WindowsOf(pool, lo) \o WindowLoop(pool, lo + 1, hi)

AllAvailableCombinations(pool) == WindowLoop(pool, 3, 5)

\* available: the pool without the pigments whose name contains "black"
AvailableNoBlack(pool) ==
  LET Keep(p) == ~NameContainsBlack(p)
  IN SelectSeq(pool, Keep)

NoBlackCombinations(pool) == WindowLoop(AvailableNoBlack(pool), 3, 4)

(* ---------------------------------------------------------------------- *)
(* find_neutral_greys                                                       *)
(* ---------------------------------------------------------------------- *)
GreyPaints(pool) == SelectSeq(pool, IsGrey)

\* a filter that forgets the warm white
GreyOtherPaintsKeepWarmWhite(pool) ==
  LET Keep(p) == ~IsGrey(p) /\ ~IsTitaniumWhite(p) /\ ~IsIvoryBlack(p)
  IN SelectSeq(pool, Keep)

GreyOtherPaints(pool) ==
  LET Keep(p) ==
        ~IsGrey(p) /\ ~IsTitaniumWhite(p) /\ ~IsIvoryBlack(p) /\ ~IsWarmWhite(p)
  IN SelectSeq(pool, Keep)

\* for grey in &grey_paints { the pair loops over other_paints }
RECURSIVE GreyLoop(_, _)
GreyLoop(greys, others) ==
  IF greys = <<>> THEN <<>>
  ELSE PairLoop(<<Head(greys)>>, others, 1, 2) \o GreyLoop(Tail(greys), others)

NeutralGreyCombinations(pool) ==
  IF GreyPaints(pool) = <<>> THEN <<>>
  ELSE GreyLoop(GreyPaints(pool), GreyOtherPaints(pool))

(* ---------------------------------------------------------------------- *)
(* The closure each rayon worker runs on one combination                    *)
(* ---------------------------------------------------------------------- *)
\* optimize_weights has one return, Ok(best_weights)
OptimizeWeights(paints) == [tag |-> "Ok"]

\* the error create_result computes: the Lab of a target that holds a NaN or
\* an infinity is NaN, and so is the distance to it; the mixed curve is
\* clamped by kubelka_munk_mix and its Lab is finite
DeltaE(target, e) == IF target = "nonfinite" THEN NaN ELSE e

CreateResult(paints, target, e) == [paints |-> paints, error |-> DeltaE(target, e)]

\* |paints| optimize_weights(..).ok().map(|weights| self.create_result(..))
ProcessCombination(paints, target, e) ==
  IF OptimizeWeights(paints).tag = "Ok"
  THEN Some(CreateResult(paints, target, e))
  ELSE None

\* Option values flattened: the Some values of a sequence, in its order
RECURSIVE SomeValues(_)
SomeValues(sl) ==
  IF sl = <<>> THEN <<>>
  ELSE (IF Head(sl).tag = "Some" THEN <<Head(sl).val>> ELSE <<>>) \o SomeValues(Tail(sl))

\* a collect that gathers in the order of completion: the result of the
\* first combination comes last when another worker finished before its own
ParCollectByCompletion(sl) ==
  IF overtaken /\ sl # <<>>
  THEN SomeValues(Tail(sl)) \o SomeValues(<<Head(sl)>>)
  ELSE SomeValues(sl)

\* par_iter().filter_map(..).collect(): the Some values in the order of the
\* combinations, whatever the order the workers finished in
ParCollect(sl) == SomeValues(sl)

(* ---------------------------------------------------------------------- *)
(* find_combinations: sort by error and take the top 5                      *)
(* ---------------------------------------------------------------------- *)
\* f64::partial_cmp
PartialCmp(a, b) ==
  IF a = NaN \/ b = NaN THEN "None"
  ELSE IF a < b THEN "Less"
  ELSE IF a > b THEN "Greater"
  ELSE "Equal"

\* |a, b| a.error.partial_cmp(&b.error).unwrap_or(Ordering::Equal)
CompareError(a, b) ==
  LET c == PartialCmp(a.error, b.error)
  IN IF c = "None" THEN "Equal" ELSE c

\* slice::sort_by is a stable sort: an element goes behind the elements it
\* is not less than
RECURSIVE StableInsert(_, _)
StableInsert(sorted, x) ==
  IF sorted = <<>> THEN <<x>>
  ELSE IF CompareError(x, Head(sorted)) = "Less" THEN <<x>> \o sorted
  ELSE <<Head(sorted)>> \o StableInsert(Tail(sorted), x)

\* a sort that is not stable: an element goes before the elements it is
\* equal to
RECURSIVE InsertBeforeTies(_, _)
InsertBeforeTies(sorted, x) ==
  IF sorted = <<>> THEN <<x>>
  ELSE IF CompareError(x, Head(sorted)) # "Greater" THEN <<x>> \o sorted
  ELSE <<Head(sorted)>> \o InsertBeforeTies(Tail(sorted), x)

RECURSIVE SortByErrorUnstable(_)
SortByErrorUnstable(s) ==
  IF s = <<>> THEN <<>>
  ELSE InsertBeforeTies(SortByErrorUnstable(SubSeq(s, 1, Len(s) - 1)), s[Len(s)])

RECURSIVE SortByError(_)
SortByError(s) ==
  IF s = <<>> THEN <<>>
  ELSE StableInsert(SortByError(SubSeq(s, 1, Len(s) - 1)), s[Len(s)])

TopN == 5

\* the cut without the sort
TakeUnsorted(rs) == Take(rs, TopN)

SortAndTake(rs) == Take(SortByError(rs), TopN)

(* ---------------------------------------------------------------------- *)
(* Actions                                                                  *)
(* ---------------------------------------------------------------------- *)
\* the strategy returned an error: find_combinations returns it ('?')
Fail(arm, e) ==
  /\ pc' = "done"
  /\ branch' = arm
  /\ ret' = e
  /\ UNCHANGED <<paint_data, mix_choice, target_reflectance,
                 combinations, slots, overtaken, results, callVars>>

\* the strategy enumerated its combinations and hands them to the workers
Dispatch(arm, combos) ==
  /\ pc' = "processing"
  /\ branch' = arm
  /\ combinations' = combos
  /\ slots' = [i \in 1..Len(combos) |-> Pending]
  /\ UNCHANGED <<paint_data, mix_choice, target_reflectance, overtaken, results, ret,
                 callVars>>

\* find_combinations, arm '_': no strategy of that name
InvalidMixChoice ==
  /\ pc = "call"
  /\ MatchArm(MixChoices[mix_choice]) = "invalid"
  /\ Fail("invalid", Err("OptimizationError", SInvalidMixChoice))

\* find_combinations -> find_black_white_n_colors(.., n_extra)
FindBlackWhiteNColors(n_extra) ==
  /\ pc = "call"
  /\ MatchArm(MixChoices[mix_choice]) = (IF n_extra = 2 THEN "bw2" ELSE "bw3")
  /\ LET arm == MatchArm(MixChoices[mix_choice])
     IN IF ~HasWhite(paint_data)
        THEN Fail(arm, Err("MissingColor", STitaniumWhite))
        ELSE IF ~HasBlack(paint_data)
        THEN Fail(arm, Err("MissingColor", SIvoryBlack))
        ELSE Dispatch(arm, BlackWhiteCombinations(paint_data, n_extra))

\* find_combinations -> find_all_available_colors
FindAllAvailableColors ==
  /\ pc = "call"
  /\ MatchArm(MixChoices[mix_choice]) = "all"
  /\ Dispatch("all", AllAvailableCombinations(paint_data))

\* find_combinations -> find_neutral_greys
FindNeutralGreys ==
  /\ pc = "call"
  /\ MatchArm(MixChoices[mix_choice]) = "greys"
  /\ Dispatch("greys", NeutralGreyCombinations(paint_data))

\* find_combinations -> find_no_black
FindNoBlack ==
  /\ pc = "call"
  /\ MatchArm(MixChoices[mix_choice]) = "noblack"
  /\ Dispatch("noblack", NoBlackCombinations(paint_data))

\* a rayon worker finishes combination i; e is the Delta E its arithmetic
\* yields on a finite target
Worker(i) ==
  /\ pc = "processing"
  /\ i \in DOMAIN slots
  /\ slots[i] = Pending
  /\ \E e \in ErrVals :
       slots' = [slots EXCEPT ![i] =
                   ProcessCombination(combinations[i], target_reflectance, e)]
  /\ overtaken' = (overtaken \/ (i # 1 /\ slots[1] = Pending))
  /\ UNCHANGED <<paint_data, mix_choice, target_reflectance, pc, branch,
                 combinations, results, ret, callVars>>

\* all workers joined: the strategy returns Ok(results), find_combinations
\* sorts them and returns the first five
Return ==
  /\ pc = "processing"
  /\ \A i \in DOMAIN slots : slots[i] # Pending
  /\ results' = ParCollect(slots)
  /\ ret' = Ok(SortAndTake(results'))
  /\ pc' = "done"
  /\ UNCHANGED <<paint_data, mix_choice, target_reflectance, branch,
                 combinations, slots, overtaken, callVars>>

Next ==
  \/ InvalidMixChoice
  \/ FindBlackWhiteNColors(2)
  \/ FindBlackWhiteNColors(3)
  \/ FindAllAvailableColors
  \/ FindNeutralGreys
  \/ FindNoBlack
  \/ \E i \in 1..Len(combinations) : Worker(i)
  \/ Return

Spec == Init /\ [][Next]_vars

(* ---------------------------------------------------------------------- *)
(* Properties                                                               *)
(* ---------------------------------------------------------------------- *)
ReturnedOk == pc = "done" /\ ret.tag = "Ok"
Min(a, b) == IF a < b THEN a ELSE b

\* the comparisons of f64: every comparison with NaN is false
FLt(a, b) == a # NaN /\ b # NaN /\ a < b
FLe(a, b) == a # NaN /\ b # NaN /\ a <= b

\* no worker ran: no combination was optimized
NothingOptimized == ~overtaken /\ \A i \in DOMAIN slots : slots[i] = Pending

\* C1: the list find_combinations returns is ordered by non-decreasing
\* error: result[i].error <= result[j].error for all i < j.
C1_Ordered ==
  ReturnedOk =>
    \A i, j \in DOMAIN ret.list :
      i < j => FLe(ret.list[i].error, ret.list[j].error)

\* the combinations whose worker produced a recipe
ProducedIdx == {i \in DOMAIN slots : slots[i].tag = "Some"}
ErrorAt(i) == slots[i].val.error

\* recipe i stands before recipe j in the ranking: smaller error, or the
\* same rank of error and enumerated earlier
Before(i, j) ==
  \/ FLt(ErrorAt(i), ErrorAt(j))
  \/ ~FLt(ErrorAt(j), ErrorAt(i)) /\ i < j

RankOf(i) == 1 + Cardinality({j \in ProducedIdx : j # i /\ Before(j, i)})

\* C2: the returned list is a function of the combinations and of what each
\* computation yields, not of the order in which the workers finished: the
\* recipe of combination i is at the position its error and its place in
\* the enumeration give it, for every interleaving.
C2_Deterministic ==
  ReturnedOk =>
    /\ Len(ret.list) = Min(TopN, Cardinality(ProducedIdx))
    /\ \A i \in ProducedIdx :
         RankOf(i) <= TopN => ret.list[RankOf(i)] = slots[i].val

\* a search whose workers finished out of order and whose two best recipes tie
C2_Witness ==
  /\ ReturnedOk
  /\ overtaken
  /\ Len(ret.list) >= 2
  /\ ret.list[1].error = ret.list[2].error

RangeOf(sq) == {sq[i] : i \in DOMAIN sq}

\* C3: find_combinations returns exactly min(5, N) recipes of the N the
\* strategy produced, and no recipe left out has a strictly smaller error
\* than a returned one.
C3_TopFive ==
  ReturnedOk =>
    /\ Len(ret.list) = Min(5, Len(results))
    /\ RangeOf(ret.list) \subseteq RangeOf(results)
    /\ Cardinality(RangeOf(ret.list)) = Len(ret.list)
    /\ \A r \in RangeOf(results) \ RangeOf(ret.list) :
         \A q \in RangeOf(ret.list) : ~FLt(r.error, q.error)

\* more than five recipes were produced and the cut is not a prefix of them
C3_Witness ==
  /\ ReturnedOk
  /\ Len(results) > 5
  /\ Len(ret.list) = 5
  /\ ret.list # SubSeq(results, 1, 5)

\* C4: a combination whose computed error is non-finite is dropped and never
\* appears in the returned list.
C4_NonFiniteDropped ==
  ReturnedOk =>
    \A k \in DOMAIN ret.list : ret.list[k].error # NaN

\* the names of a pool, and name tests written out on the text
NamesOf(pool) == {NameOf(pool[i]) : i \in DOMAIN pool}
EqualsIgnoreCase(name, lit) == ToLowercase(name) = lit
EqualsTrimmedIgnoreCase(name, lit) == Trim(ToLowercase(name)) = lit

UnderBlackWhite == pc = "done" /\ branch \in {"bw2", "bw3"}
FailedMissing(name) ==
  /\ ret = Err("MissingColor", name)
  /\ NothingOptimized
  /\ combinations = <<>>
  /\ results = <<>>

\* C5 as stated: under the two black + white strategies, a pool without a
\* pigment whose name equals "titanium white" case-insensitively fails with
\* MissingColor("Titanium White"); with it but without "ivory black", with
\* MissingColor("Ivory Black"); nothing is optimized or returned.
C5_AsStated ==
  UnderBlackWhite =>
    /\ (~\E n \in NamesOf(paint_data) : EqualsIgnoreCase(n, STitaniumWhiteLower))
         => FailedMissing(STitaniumWhite)
    /\ ( /\ \E n \in NamesOf(paint_data) : EqualsIgnoreCase(n, STitaniumWhiteLower)
         /\ ~\E n \in NamesOf(paint_data) : EqualsIgnoreCase(n, SIvoryBlackLower) )
         => FailedMissing(SIvoryBlack)

\* C5, amended: the same with the names compared after lowercasing and
\* trimming the surrounding whitespace.
C5_MissingColor ==
  UnderBlackWhite =>
    /\ (~\E n \in NamesOf(paint_data) : EqualsTrimmedIgnoreCase(n, STitaniumWhiteLower))
         => FailedMissing(STitaniumWhite)
    /\ ( /\ \E n \in NamesOf(paint_data) : EqualsTrimmedIgnoreCase(n, STitaniumWhiteLower)
         /\ ~\E n \in NamesOf(paint_data) : EqualsTrimmedIgnoreCase(n, SIvoryBlackLower) )
         => FailedMissing(SIvoryBlack)

\* a pool with a white and another black but no Ivory Black was refused
C5_Witness ==
  /\ UnderBlackWhite
  /\ \E n \in NamesOf(paint_data) : EqualsTrimmedIgnoreCase(n, STitaniumWhiteLower)
  /\ \E n \in NamesOf(paint_data) : Contains(ToLowercase(n), SBlack)
  /\ ret = Err("MissingColor", SIvoryBlack)

StrategyNames == {SBlackWhite2, SBlackWhite3, SAllAvailable, SNeutralGreys, SNoBlack}

ArmOfName(lit) ==
  IF lit = SBlackWhite2 THEN "bw2"
  ELSE IF lit = SBlackWhite3 THEN "bw3"
  ELSE IF lit = SAllAvailable THEN "all"
  ELSE IF lit = SNeutralGreys THEN "greys"
  ELSE "noblack"

\* C6: a call with a string that names none of the five strategies fails
\* with the InvalidStrategy error and runs no optimization.
C6_InvalidStrategy ==
  (pc = "done" /\ Trim(ToLowercase(MixChoices[mix_choice])) \notin StrategyNames) =>
    /\ ret.tag = "Err"
    /\ ret.kind = "InvalidStrategy"
    /\ NothingOptimized

\* C7: a string that differs from a strategy name only by letter case or by
\* leading or trailing whitespace selects that strategy.
C7_TrimmedMatch ==
  pc = "done" =>
    \A lit \in StrategyNames :
      Trim(ToLowercase(MixChoices[mix_choice])) = lit => branch = ArmOfName(lit)

\* the pigments of the pool that are neither white, black nor warm white
FilteredPool ==
  {paint_data[i] : i \in {k \in DOMAIN paint_data :
     /\ ~EqualsTrimmedIgnoreCase(NameOf(paint_data[k]), STitaniumWhiteLower)
     /\ ~EqualsTrimmedIgnoreCase(NameOf(paint_data[k]), SIvoryBlackLower)
     /\ ~EqualsTrimmedIgnoreCase(NameOf(paint_data[k]), SWarmWhiteLower)}}

ExtrasOf(c) == {c[k] : k \in 3..Len(c)}

\* C8: under black + white + N colours every combination is Titanium White,
\* Ivory Black and N distinct pigments of the pool without white, black and
\* warm white; each N-subset of that filtered pool is tried exactly once;
\* every returned recipe is one of these combinations.
C8_BlackWhiteCombos ==
  (branch \in {"bw2", "bw3"} /\ ReturnedOk) =>
    LET n == IF branch = "bw2" THEN 2 ELSE 3
    IN /\ \A i \in DOMAIN combinations :
            LET c == combinations[i]
            IN /\ Len(c) = n + 2
               /\ EqualsTrimmedIgnoreCase(NameOf(c[1]), STitaniumWhiteLower)
               /\ EqualsTrimmedIgnoreCase(NameOf(c[2]), SIvoryBlackLower)
               /\ ExtrasOf(c) \subseteq FilteredPool
               /\ Cardinality(ExtrasOf(c)) = n
       /\ \A S \in SUBSET FilteredPool :
            Cardinality(S) = n =>
              Cardinality({i \in DOMAIN combinations : ExtrasOf(combinations[i]) = S}) = 1
       /\ \A i \in DOMAIN combinations : slots[i] # Pending
       /\ \A k \in DOMAIN ret.list : ret.list[k].paints \in RangeOf(combinations)

\* a black + white + 2 colours search over a pool that holds a warm white
\* returned recipes
C8_Witness ==
  /\ ReturnedOk
  /\ branch = "bw2"
  /\ \E n \in NamesOf(paint_data) : EqualsTrimmedIgnoreCase(n, SWarmWhiteLower)
  /\ Len(ret.list) >= 1

\* "black" occurs in the name in some letter case
MatchesBlackAnyCase(name) ==
  \E k \in 1..(Len(name) - 4) : ToLowercase(SubSeq(name, k, k + 4)) = SBlack

\* C9: no recipe returned under no black contains a pigment whose name
\* contains "black" in any letter case.
C9_NoBlack ==
  (ReturnedOk /\ branch = "noblack") =>
    \A k \in DOMAIN ret.list :
      \A m \in DOMAIN ret.list[k].paints :
        ~MatchesBlackAnyCase(NameOf(ret.list[k].paints[m]))

\* a no black search over a pool that holds a black returned recipes
C9_Witness ==
  /\ ReturnedOk
  /\ branch = "noblack"
  /\ \E n \in NamesOf(paint_data) : MatchesBlackAnyCase(n)
  /\ Len(ret.list) >= 1

\* the contiguous windows of length k of the pool, by their start
WindowStarts(k) == 1..(Len(paint_data) - k + 1)
WindowAt(st, k) == SubSeq(paint_data, st, st + k - 1)

\* C10: all available colours enumerates exactly the contiguous windows of
\* length 3, 4 and 5 of the pool in its order: each once, none of a length
\* longer than the pool, and nothing else.
C10_Windows ==
  (branch = "all" /\ ReturnedOk) =>
    /\ \A k \in 3..5 : \A st \in WindowStarts(k) :
         Cardinality({i \in DOMAIN combinations : combinations[i] = WindowAt(st, k)}) = 1
    /\ \A i \in DOMAIN combinations :
         \E k \in 3..5 : \E st \in WindowStarts(k) : combinations[i] = WindowAt(st, k)
    /\ \A k \in 3..5 :
         k > Len(paint_data) => \A i \in DOMAIN combinations : Len(combinations[i]) # k
    /\ \A i \in DOMAIN combinations : slots[i] # Pending

\* a pool of four: two windows of three, one of four, none of five
C10_Witness ==
  /\ branch = "all"
  /\ pc = "done"
  /\ Len(paint_data) = 4
  /\ Len(combinations) = 3

\* "grey" or "gray" occurs in the name in some letter case
MatchesGreyAnyCase(name) ==
  \E k \in 1..(Len(name) - 3) : ToLowercase(SubSeq(name, k, k + 3)) \in {SGrey, SGray}

\* the greys of the pool, and its pigments that are neither grey nor white,
\* black or warm white
PoolGreys ==
  {paint_data[i] : i \in {k \in DOMAIN paint_data :
     MatchesGreyAnyCase(NameOf(paint_data[k]))}}
GreyEligible == FilteredPool \ PoolGreys

MaxIterations == 2

MaxMse == 2

\* the length of a target curve and of the curves of the catalog
Bands == 31

\* the curve lengths a caller of optimize_weights can pass
BandLens == {Bands - 1, Bands}

\* current_error: a level, or NaN when the target holds a NaN or an infinity
MseVals(target) == IF target = "nonfinite" THEN {NaN} ELSE 0..MaxMse
\* tolerance = 1e-8: the errors of level 0 are the ones below it
Tolerance == 1
\* f64::MAX, above every error
F64Max == MaxMse + 1

\* a test that takes every iterate for the best
ImprovesAlways(current_error, best_error) == TRUE

\* if current_error < best_error
Improves(current_error, best_error) == FLt(current_error, best_error)

\* a test that never stops the loop
BelowToleranceNever(current_error) == FALSE

\* if current_error < tolerance { break; }
BelowTolerance(current_error) == FLt(current_error, Tolerance)

Signs == {"zero", "pos"}
WeightVec(sign, unit) == [sign |-> sign, unit |-> unit]

\* vec![1.0 / n; n]
UniformWeights(n) == WeightVec([i \in 1..n |-> "pos"], n > 0)

\* weights.iter().sum() > 0.0
SumPositive(w) == \E i \in DOMAIN w.sign : w.sign[i] = "pos"

\* if sum > 0.0 { for w in weights { *w /= sum } }
Normalize(w) == IF SumPositive(w) THEN WeightVec(w.sign, TRUE) ELSE w

\* weights[i] = (weights[i] - alpha * gradients[i]).max(0.0).min(1.0): the
\* clip leaves each weight zero or positive as the gradient decides (s); a
\* NaN gradient leaves 0.0, since max returns its other argument
UpdateWeights(w, e, s) ==
  IF e = NaN
  THEN WeightVec([i \in DOMAIN w.sign |-> "zero"], FALSE)
  ELSE WeightVec(s, FALSE)

\* the display hex of a catalog row
HexOf(p) == <<"#", p>>

\* the combinations a strategy enumerates for a pool; none when the strategy
\* fails or does not exist
StrategyCombinations(pool, arm) ==
  CASE arm \in {"bw2", "bw3"} ->
         IF HasWhite(pool) /\ HasBlack(pool)
         THEN BlackWhiteCombinations(pool, IF arm = "bw2" THEN 2 ELSE 3)
         ELSE <<>>
    [] arm = "all" -> AllAvailableCombinations(pool)
    [] arm = "greys" -> NeutralGreyCombinations(pool)
    [] arm = "noblack" -> NoBlackCombinations(pool)
    [] OTHER -> <<>>

\* the pools the followed calls are taken from: the longest ones
LongPools == {p \in Pools : Len(p) = MaxRun}

\* a call a strategy makes: a combination, one initial weight per pigment,
\* curves and target of 31 bands
SearchCall(arm, c) ==
  [arm |-> arm, selected_paints |-> c, initial_len |-> Len(c),
   curve_lens |-> [i \in 1..Len(c) |-> Bands], target_len |-> Bands]

SearchCalls ==
  UNION { { SearchCall(MatchArm(MixChoices[m]), c) :
              c \in RangeOf(StrategyCombinations(pool, MatchArm(MixChoices[m]))) } :
            pool \in LongPools, m \in DOMAIN MixChoices }

\* calls from elsewhere: three pigments, any lengths
DirectCalls ==
  { [arm |-> "direct", selected_paints |-> Take(pool, 3),
     initial_len |-> n, curve_lens |-> cl, target_len |-> tl] :
      pool \in LongPools, n \in 2..4, cl \in [1..3 -> BandLens], tl \in BandLens }

\* kubelka_munk_mix indexes reflectance_data[j][i] for every weight j and
\* every band i of the first curve, and the error subtracts the mixture from
\* the target: a missing pigment, a short curve or arrays of different
\* lengths make the thread panic
OptimizePanics(c) ==
  \/ Len(c.selected_paints) = 0
  \/ c.initial_len > Len(c.selected_paints)
  \/ \E j \in 1..c.initial_len : c.curve_lens[j] < c.curve_lens[1]
  \/ c.curve_lens[1] # c.target_len

NoRecipe == [tag |-> "None"]
Panicked == [tag |-> "Panic"]
OkWeights(w) == [tag |-> "Ok", weights |-> w]

\* MixingResult { paints, weights, error, hex_colors }
MixingResult(paints, w, target, e) ==
  [paints |-> [i \in DOMAIN paints |-> NameOf(paints[i])],
   weights |-> w,
   error |-> DeltaE(target, e),
   hex_colors |-> [i \in DOMAIN paints |-> HexOf(paints[i])]]

OptimizerInitOf(calls) ==
  /\ paint_data = <<>>
  /\ mix_choice = 1
  /\ target_reflectance = "finite"
  /\ pc = "idle"
  /\ branch = "none"
  /\ combinations = <<>>
  /\ slots = <<>>
  /\ overtaken = FALSE
  /\ results = <<>>
  /\ ret = NoReturn
  /\ lhtss = Idle
  /\ srv = Idle
  /\ auth = Idle
  /\ \E c \in calls :
     \E t \in {"finite", "nonfinite"} :
       opt = [pc |-> "call", call |-> c, target |-> t,
              weights |-> UniformWeights(c.initial_len),
              best_weights |-> UniformWeights(c.initial_len),
              best_error |-> F64Max,
              best_iteration |-> 0,
              errors |-> <<>>,
              iteration |-> 0,
              ret |-> NoReturn,
              recipe |-> NoRecipe]

OptimizerInit == OptimizerInitOf(SearchCalls \cup DirectCalls)

\* optimize_weights is entered; the first mixture is computed from the
\* initial weights, whose sum is positive
OptimizeCall ==
  /\ opt.pc = "call"
  /\ opt' = IF OptimizePanics(opt.call)
            THEN [opt EXCEPT !.pc = "panicked", !.ret = Panicked]
            ELSE [opt EXCEPT !.pc = "loop"]
  /\ UNCHANGED <<searchVars, lhtss, srv, auth>>

\* one pass of the loop: normalize, mix and measure, keep the best, stop
\* below the tolerance, else step along the gradient and clip; errors holds
\* the error measured in each pass, best_iteration the number of the pass
\* whose weights best_weights is the clone of (the initial weights, which
\* pass 0 evaluates normalized, until a pass improves on f64::MAX)
Iterate ==
  /\ opt.pc = "loop"
  /\ opt.iteration < MaxIterations
  /\ \E e \in MseVals(opt.target) :
     \E s \in [1..opt.call.initial_len -> Signs] :
       LET w == Normalize(opt.weights)
           better == Improves(e, opt.best_error)
           stop == BelowTolerance(e)
       IN opt' = [opt EXCEPT
                    !.errors = Append(@, e),
                    !.best_error = IF better THEN e ELSE @,
                    !.best_weights = IF better THEN w ELSE @,
                    !.best_iteration = IF better THEN opt.iteration ELSE @,
                    !.weights = IF stop THEN w ELSE UpdateWeights(w, e, s),
                    !.iteration = IF stop THEN @ ELSE @ + 1,
                    !.pc = IF stop THEN "break" ELSE "loop"]
  /\ UNCHANGED <<searchVars, lhtss, srv, auth>>

\* after the loop: the best weights are divided by their sum if it is
\* positive, and returned
OptimizeReturn ==
  /\ \/ opt.pc = "break"
     \/ opt.pc = "loop" /\ opt.iteration = MaxIterations
  /\ opt' = [opt EXCEPT !.pc = "returned",
                        !.best_weights = Normalize(@),
                        !.ret = OkWeights(Normalize(opt.best_weights))]
  /\ UNCHANGED <<searchVars, lhtss, srv, auth>>

\* .ok().map(|weights| self.create_result(combo, weights, &target_clone))
CreateResultOfWeights ==
  /\ opt.pc = "returned"
  /\ opt.call.arm # "direct"
  /\ \E e \in ErrVals :
       opt' = [opt EXCEPT
                 !.pc = "done",
                 !.recipe = Some(MixingResult(opt.call.selected_paints,
                                              opt.ret.weights, opt.target, e))]
  /\ UNCHANGED <<searchVars, lhtss, srv, auth>>

OptimizerNext ==
  \/ OptimizeCall
  \/ Iterate
  \/ OptimizeReturn
  \/ CreateResultOfWeights

SpecOptimizer == OptimizerInit /\ [][OptimizerNext]_vars

\* the recipe the followed worker produced
RecipeMade == opt.pc = "done" /\ opt.recipe.tag = "Some"

\* C12: in every recipe a strategy produces, paints, weights and hex_colors
\* have the length of the combination and list its pigments in its order,
\* every weight is >= 0, and the weights are normalized: their sum is
\* positive and is 1.
C12_RecipeWellFormed ==
  RecipeMade =>
    LET r == opt.recipe.val
        c == opt.call.selected_paints
    IN /\ DOMAIN r.paints = DOMAIN c
       /\ DOMAIN r.weights.sign = DOMAIN c
       /\ DOMAIN r.hex_colors = DOMAIN c
       /\ \A i \in DOMAIN c :
            /\ r.paints[i] = NameOf(c[i])
            /\ r.hex_colors[i] = HexOf(c[i])
            /\ r.weights.sign[i] \in Signs
       /\ SumPositive(r.weights)
       /\ r.weights.unit

\* C13: every recipe produced under black + white + 2 colours has four
\* weights, each strictly positive, that sum to 1.
C13_PositiveWeights ==
  (RecipeMade /\ opt.call.arm = "bw2") =>
    LET w == opt.recipe.val.weights
    IN /\ DOMAIN w.sign = 1..4
       /\ \A i \in DOMAIN w.sign : w.sign[i] = "pos"
       /\ w.unit

\* the length invariant of optimize_weights: one initial weight per pigment,
\* every curve as long as the target
LengthInvariant(c) ==
  /\ c.initial_len = Len(c.selected_paints)
  /\ \A j \in DOMAIN c.curve_lens : c.curve_lens[j] = c.target_len

\* C15: a call of optimize_weights whose inputs violate the length invariant
\* returns an OptimizationError; it neither returns weights nor aborts.
C15_LengthError ==
  (opt.pc \in {"returned", "panicked", "done"} /\ ~LengthInvariant(opt.call)) =>
    /\ opt.ret.tag = "Err"
    /\ opt.ret.kind = "OptimizationError"

\* optimize_weights returned its weights
OptReturned == opt.pc \in {"returned", "done"}

\* the error measured in pass k of the loop (k from 0)
ErrorOfPass(k) == opt.errors[k + 1]

\* C22: the weights optimize_weights returns are the renormalized weights
\* of the iterate with the smallest MSE among the iterates evaluated in the
\* run: no pass, the first included, measured an MSE smaller than the one
\* of the pass whose weights are returned.
C22_BestIterate ==
  OptReturned =>
    /\ opt.best_iteration + 1 \in DOMAIN opt.errors
    /\ \A j \in DOMAIN opt.errors :
         ~FLt(opt.errors[j], ErrorOfPass(opt.best_iteration))
    /\ opt.best_error # F64Max => opt.best_error = ErrorOfPass(opt.best_iteration)
    /\ opt.ret = OkWeights(Normalize(opt.best_weights))
    /\ SumPositive(opt.best_weights) => opt.ret.weights.unit

\* the loop ran to its cap, a pass before the last measured the smallest
\* MSE, the last a larger one, and the weights of the former were returned
C22_Witness ==
  /\ OptReturned
  /\ Len(opt.errors) = MaxIterations
  /\ opt.best_iteration < MaxIterations - 1
  /\ FLt(ErrorOfPass(opt.best_iteration), ErrorOfPass(MaxIterations - 1))
  /\ opt.best_weights # Normalize(opt.weights)

\* the calls followed to their end: the ones of at most MaxFollowed weights
MaxFollowed == 3

FollowedCalls == {c \in SearchCalls \cup DirectCalls : c.initial_len <= MaxFollowed}

\* the loop is one thread: a pass that can run does run
OptimizerInitFollowed == OptimizerInitOf(FollowedCalls)

SpecOptimizerFair ==
  OptimizerInitFollowed /\ [][OptimizerNext]_vars /\ WF_vars(OptimizerNext)

\* optimize_weights is over: it returned, or its thread panicked
OptEnded == opt.pc \in {"returned", "panicked", "done"}

\* the passes of the loop are bounded, none follows a pass whose MSE is
\* below the tolerance, and that pass is not followed by a weight update
\* (iteration counts the updates made)
OptStopsAtFirst ==
  /\ Len(opt.errors) <= MaxIterations
  /\ opt.iteration <= MaxIterations
  /\ \A j \in DOMAIN opt.errors :
       FLt(opt.errors[j], Tolerance) =>
         /\ j = Len(opt.errors)
         /\ opt.iteration = j - 1
         /\ opt.pc \in {"break", "returned", "done"}
         /\ opt.pc = "break" => opt.weights = opt.best_weights
  /\ (\A j \in DOMAIN opt.errors : ~FLt(opt.errors[j], Tolerance)) =>
       opt.iteration = Len(opt.errors)

\* C23: optimize_weights always terminates: it makes at most the capped
\* number of passes (1000 in the source), and it stops at the first pass
\* whose MSE is below the tolerance without a further weight update.
C23_Terminates == []OptStopsAtFirst /\ <>OptEnded

\* the loop stopped in its second pass, below the tolerance, after one
\* weight update
C23_Witness ==
  /\ OptReturned
  /\ Len(opt.errors) = 2
  /\ FLt(ErrorOfPass(1), Tolerance)
  /\ opt.iteration = 1

(* ====================================================================== *)
(* Server functions of the paint pages                                     *)
(* (src/src/server_fns/paint.rs, src/src/db/mod.rs)                        *)
(*                                                                         *)
(* One call of get_paint_colors, get_user_paint_settings, find_paint_mix  *)
(* or test_paint_mix.  The database is the user's settings row and the    *)
(* table of one brand; a spectral blob is NULL, bytes that bincode        *)
(* rejects, or a curve of some length.  The stored selection is NULL or a *)
(* text: empty, not JSON, or the serialization of a JSON value.  The      *)
(* target computation and the search are followed by their outcome only.  *)
(* ====================================================================== *)
MaxRows == 4

\* get_paint_brands: the hard-coded list of brand tables
ValidBrands ==
  {"winsor_newton_artist_oil_colour", "daler_rowney_georgian_oil_colours",
   "griffin_alkyd_fast_drying_oil_colour", "gamblin_conservation_colors",
   "michael_harding", "maimeri_puro_oil", "schmincke_mussini_oils",
   "sennellier_extra_fine_oils", "talens_van_gogh_oil_colour",
   "williamsburg_handmade_oil_colors", "winton_oil_colour"}

\* brand ids a caller or a stored selection can hold
BrandInputs ==
  {"michael_harding", "Michael_Harding", "no_such_brand",
   "michael_harding; DROP TABLE users"}

\* spectral_curve: Option<Vec<u8>>
NullBlob == [kind |-> "null"]
CorruptBlob == [kind |-> "corrupt"]
CurveBlob(n) == [kind |-> "curve", len |-> n]
Blobs == {NullBlob, CorruptBlob} \cup {CurveBlob(n) : n \in BandLens}

\* bincode::deserialize::<Vec<f64>>(..).ok(): the curve, by its length
Deserialize(blob) == IF blob.kind = "curve" THEN Some(blob.len) ELSE None

\* d65_10deg_hex: Option<String>; the first row has none
HexColumn(k) == IF k = 1 THEN None ELSE Some(HexOf(k))
\* .unwrap_or_else(|| "#808080".to_string())
DefaultHex == HexOf(0)
UnwrapHex(h) == IF h.tag = "Some" THEN h.val ELSE DefaultHex

\* a row of a brand table: PaintColor { _id, spectral_curve, d65_10deg_hex }
PaintColor(k, blob) == [id |-> k, spectral_curve |-> blob, d65_10deg_hex |-> HexColumn(k)]

\* the tables of a brand: MaxRows rows with any blobs
Tables == { [k \in 1..MaxRows |-> PaintColor(k, b[k])] : b \in [1..MaxRows -> Blobs] }
FullTable == [k \in 1..MaxRows |-> PaintColor(k, CurveBlob(Bands))]

\* serde_json::Value
JString(x) == [t |-> "string", s |-> x]
JNumber == [t |-> "number"]
JArray(items) == [t |-> "array", items |-> items]
JObject(entries) == [t |-> "object", entries |-> entries]

\* selected_colors: Option<String>
EmptyText == [kind |-> "empty"]
MalformedText == [kind |-> "malformed"]
JsonText(v) == [kind |-> "json", value |-> v]

\* serde_json::from_str(s).ok()
FromStr(text) == IF text.kind = "json" THEN Some(text.value) ELSE None

\* selected_colors.as_deref().and_then(|s| serde_json::from_str(s).ok())
ParseSelected(selected_colors) ==
  IF selected_colors.tag = "Some" THEN FromStr(selected_colors.val) ELSE None

\* value.as_object().and_then(|obj| obj.iter().next())
FirstEntry(v) ==
  IF v.t = "object" /\ v.entries # <<>> THEN Some(Head(v.entries)) ELSE None

\* colors.as_array().map(|arr| arr.iter().filter_map(|v| v.as_str()..).collect())
\*   .unwrap_or_default()
RECURSIVE StringsOf(_)
StringsOf(items) ==
  IF items = <<>> THEN <<>>
  ELSE (IF Head(items).t = "string" THEN <<Head(items).s>> ELSE <<>>)
       \o StringsOf(Tail(items))
ColorNames(v) == IF v.t = "array" THEN StringsOf(v.items) ELSE <<>>

\* { brand: [ids] } as save_user_paint_settings stores it
SelectionOf(brand, ids) ==
  JsonText(JObject(<< <<brand, JArray([i \in DOMAIN ids |-> JString(ids[i])])>> >>))

\* the selections of pigments of a table
Selections == { SeqOfSet(S) : S \in SUBSET (1..MaxRows) }

\* stored selections that are no selection of pigments of a known brand
OddTexts ==
  {EmptyText, MalformedText,
   JsonText(JObject(<<>>)),
   JsonText(JArray(<<>>)),
   JsonText(JObject(<< <<"michael_harding", JNumber>> >>)),
   JsonText(JObject(<< <<"michael_harding", JArray(<<JNumber, JString(1)>>)>> >>)),
   SelectionOf("no_such_brand", <<1, 2, 3>>)}

UserSettings(mix, selected) == [colour_mix_choice |-> mix, selected_colors |-> selected]
UserPaintSettings(mix, brand, colors) ==
  [mix_choice |-> mix, brand |-> brand, colors |-> colors]
\* UserPaintSettings::default()
DefaultSettings == UserPaintSettings("", "", <<>>)

SrvOk(v) == [tag |-> "Ok", val |-> v]
SrvErr(msg) == [tag |-> "Err", msg |-> msg]
\* ServerFnError::new(format!("Paint '{}' has {} spectral values, expected {}", ..))
SrvErrDims(name, len, expected) ==
  [tag |-> "Err", msg |-> "Paint has spectral values, expected",
   name |-> name, len |-> len, expected |-> expected]

\* a lookup that takes any brand
IsValidBrandUnchecked(brand) == TRUE

\* valid_brands.contains(&brand.to_string())
IsValidBrand(brand) == brand \in ValidBrands

\* db::get_paint_colors: an empty list for a brand outside the list, else the
\* rows of SELECT .. FROM {brand}, or none when the query fails
DbGetPaintColors(brand, table, query_ok) ==
  IF ~IsValidBrand(brand)
  THEN [rows |-> <<>>, queries |-> <<>>]
  ELSE [rows |-> IF query_ok THEN table ELSE <<>>, queries |-> <<brand>>]

\* PaintColorInfo { id, hex } of each row
PaintColorInfos(rows) ==
  [i \in DOMAIN rows |-> [id |-> rows[i].id, hex |-> UnwrapHex(rows[i].d65_10deg_hex)]]

\* find_paint_mix: the rows of the selection whose blob is there and
\* deserializes, as (name, curve, hex); a curve is kept by its length
PaintDataOf(rows, color_names) ==
  LET Usable(c) ==
        /\ c.id \in RangeOf(color_names)
        /\ c.spectral_curve.kind # "null"
        /\ Deserialize(c.spectral_curve).tag = "Some"
      kept == SelectSeq(rows, Usable)
  IN [i \in DOMAIN kept |->
        [name |-> kept[i].id,
         curve |-> Deserialize(kept[i].spectral_curve).val,
         hex |-> UnwrapHex(kept[i].d65_10deg_hex)]]

\* a threshold of two
NotEnoughPaintDataBelowTwo(pd) == Len(pd) < 2

\* if paint_data.len() < 3
NotEnoughPaintData(pd) == Len(pd) < 3

\* for (name, curve, _) in &paint_data { if curve.len() != target.len() .. }
WrongLength(pd) == SelectSeq(pd, LAMBDA x : x.curve # Bands)

\* the call as it stands when it returns r
Returned(r) == [srv EXCEPT !.pc = "done", !.ret = r]

ServerIdleElse ==
  /\ paint_data = <<>>
  /\ mix_choice = 1
  /\ target_reflectance = "finite"
  /\ pc = "idle"
  /\ branch = "none"
  /\ combinations = <<>>
  /\ slots = <<>>
  /\ overtaken = FALSE
  /\ results = <<>>
  /\ ret = NoReturn
  /\ opt = Idle
  /\ lhtss = Idle
  /\ auth = Idle

ServerCall(fn, user, settings, table, brand, paints) ==
  [pc |-> "call", fn |-> fn, user |-> user, settings |-> settings, table |-> table,
   brand |-> brand, paints |-> paints,
   queries |-> <<>>, all_colors |-> <<>>, target_computed |-> FALSE, searched |-> FALSE,
   search_pool |-> <<>>, ret |-> NoReturn]

StoredSelections ==
  {None} \cup {Some(t) : t \in OddTexts}
         \cup {Some(SelectionOf("michael_harding", ids)) : ids \in Selections}

GetPaintColorsCalls ==
  {ServerCall("get_paint_colors", u, None, FullTable, b, <<>>) :
     u \in BOOLEAN, b \in BrandInputs}
  \cup {ServerCall("get_paint_colors", TRUE, None, t, "michael_harding", <<>>) : t \in Tables}

SettingsCalls ==
  {ServerCall("get_user_paint_settings", u, None, FullTable, "", <<>>) : u \in BOOLEAN}
  \cup {ServerCall("get_user_paint_settings", u, Some(UserSettings(m, sel)), FullTable, "", <<>>) :
          u \in BOOLEAN, m \in {None, Some("no black")}, sel \in StoredSelections}

FindCalls ==
  {ServerCall("find_paint_mix", u, None, FullTable, "", <<>>) : u \in BOOLEAN}
  \cup {ServerCall("find_paint_mix", u, Some(UserSettings(None, sel)), FullTable, "", <<>>) :
          u \in BOOLEAN, sel \in {None} \cup {Some(t) : t \in OddTexts}}
  \cup {ServerCall("find_paint_mix", TRUE,
                   Some(UserSettings(None, Some(SelectionOf("michael_harding", ids)))),
                   t, "", <<>>) :
          ids \in Selections, t \in Tables}

TestCalls ==
  {ServerCall("test_paint_mix", u, None, FullTable, "", <<1>>) : u \in BOOLEAN}
  \cup {ServerCall("test_paint_mix", u, Some(UserSettings(None, sel)), FullTable, "", ps) :
          u \in BOOLEAN, sel \in {None} \cup {Some(t) : t \in OddTexts},
          ps \in {<<1>>, <<2, 3>>}}
  \cup {ServerCall("test_paint_mix", TRUE,
                   Some(UserSettings(None, Some(SelectionOf("michael_harding", <<1, 2, 3>>)))),
                   t, "", ps) :
          t \in Tables, ps \in {<<1>>, <<2, 3>>}}

ServerInit ==
  /\ ServerIdleElse
  /\ srv \in GetPaintColorsCalls \cup SettingsCalls \cup FindCalls \cup TestCalls

\* #[server] get_paint_colors(brand)
GetPaintColors ==
  /\ srv.pc = "call"
  /\ srv.fn = "get_paint_colors"
  /\ \E query_ok \in BOOLEAN :
       LET got == DbGetPaintColors(srv.brand, srv.table, query_ok)
       IN srv' = [Returned(SrvOk(PaintColorInfos(got.rows)))
                    EXCEPT !.queries = got.queries, !.all_colors = got.rows]
  /\ UNCHANGED <<searchVars, opt, lhtss, auth>>

\* #[server] get_user_paint_settings()
GetUserPaintSettings ==
  /\ srv.pc = "call"
  /\ srv.fn = "get_user_paint_settings"
  /\ srv' =
       IF ~srv.user THEN Returned(SrvErr("Not authenticated"))
       ELSE IF srv.settings.tag = "None" THEN Returned(SrvOk(DefaultSettings))
       ELSE LET st == srv.settings.val
                parsed == ParseSelected(st.selected_colors)
                selected == IF parsed.tag = "Some" THEN parsed.val ELSE JObject(<<>>)
                entry == FirstEntry(selected)
                mix == IF st.colour_mix_choice.tag = "Some"
                       THEN st.colour_mix_choice.val ELSE ""
            IN IF entry.tag = "Some"
               THEN Returned(SrvOk(UserPaintSettings(mix, entry.val[1],
                                                     ColorNames(entry.val[2]))))
               ELSE Returned(SrvOk(UserPaintSettings(mix, "", <<>>)))
  /\ UNCHANGED <<searchVars, opt, lhtss, auth>>

\* #[server] find_paint_mix(r, g, b); target_ok and search_ok are the
\* outcomes of calculate_target_reflectance and of find_combinations
FindPaintMix ==
  /\ srv.pc = "call"
  /\ srv.fn = "find_paint_mix"
  /\ \E query_ok \in BOOLEAN, target_ok \in BOOLEAN, search_ok \in BOOLEAN :
       srv' =
         IF ~srv.user THEN Returned(SrvErr("Not authenticated"))
         ELSE IF srv.settings.tag = "None"
         THEN Returned(SrvErr("Please configure your paint settings first"))
         ELSE LET parsed == ParseSelected(srv.settings.val.selected_colors)
              IN IF parsed.tag = "None"
                 THEN Returned(SrvErr("Please select your paints first"))
                 ELSE LET entry == FirstEntry(parsed.val)
                      IN IF entry.tag = "None"
                         THEN Returned(SrvErr("Invalid paint selection"))
                         ELSE LET color_names == ColorNames(entry.val[2])
                                  got == DbGetPaintColors(entry.val[1], srv.table, query_ok)
                                  pd == PaintDataOf(got.rows, color_names)
                                  bad == WrongLength(pd)
                              IN IF color_names = <<>>
                                 THEN Returned(SrvErr("Please select at least some paints"))
                                 ELSE IF NotEnoughPaintData(pd)
                                 THEN [Returned(SrvErr("Not enough paint data. Please select more colors."))
                                         EXCEPT !.queries = got.queries,
                                                !.all_colors = got.rows]
                                 ELSE IF ~target_ok
                                 THEN [Returned(SrvErr("Failed to compute target reflectance"))
                                         EXCEPT !.queries = got.queries,
                                                !.all_colors = got.rows,
                                                !.target_computed = TRUE]
                                 ELSE IF bad # <<>>
                                 THEN [Returned(SrvErrDims(bad[1].name, bad[1].curve, Bands))
                                         EXCEPT !.queries = got.queries,
                                                !.all_colors = got.rows,
                                                !.target_computed = TRUE]
                                 ELSE [Returned(IF search_ok
                                                THEN SrvOk([recipes_over |-> pd])
                                                ELSE SrvErr("Failed to find combinations"))
                                         EXCEPT !.queries = got.queries,
                                                !.all_colors = got.rows,
                                                !.target_computed = TRUE,
                                                !.searched = TRUE,
                                                !.search_pool = [i \in DOMAIN pd |-> pd[i].name]]
  /\ UNCHANGED <<searchVars, opt, lhtss, auth>>

\* the curves test_paint_mix finds for the requested paints
RECURSIVE PaintReflectances(_, _)
PaintReflectances(paints, rows) ==
  IF paints = <<>> THEN <<>>
  ELSE LET found == SelectSeq(rows, LAMBDA c : c.id = Head(paints))
           curve == IF found = <<>> \/ found[1].spectral_curve.kind = "null"
                    THEN None
                    ELSE Deserialize(found[1].spectral_curve)
       IN (IF curve.tag = "Some" THEN <<curve.val>> ELSE <<>>)
          \o PaintReflectances(Tail(paints), rows)

\* kubelka_munk_mix over the curves, then mixed[i] for i in 0..31
TestMixPanics(curves, n_weights) ==
  \/ Len(curves) = 0
  \/ n_weights > Len(curves)
  \/ \E j \in 1..n_weights : curves[j] < curves[1]
  \/ curves[1] < Bands

\* #[server] test_paint_mix(paints, weights), one positive weight per paint
TestPaintMix ==
  /\ srv.pc = "call"
  /\ srv.fn = "test_paint_mix"
  /\ \E query_ok \in BOOLEAN :
       srv' =
         IF ~srv.user THEN Returned(SrvErr("Not authenticated"))
         ELSE IF srv.settings.tag = "None"
         THEN Returned(SrvErr("Please configure your paint settings first"))
         ELSE LET parsed == ParseSelected(srv.settings.val.selected_colors)
              IN IF parsed.tag = "None"
                 THEN Returned(SrvErr("Please select your paints first"))
                 ELSE LET entry == FirstEntry(parsed.val)
                      IN IF entry.tag = "None"
                         THEN Returned(SrvErr("Invalid paint selection"))
                         ELSE LET got == DbGetPaintColors(entry.val[1], srv.table, query_ok)
                                  single == SelectSeq(got.rows, LAMBDA c : c.id = srv.paints[1])
                                  curves == PaintReflectances(srv.paints, got.rows)
                              IN [ (IF Len(srv.paints) = 1 /\ single # <<>>
                                    THEN Returned(SrvOk(UnwrapHex(single[1].d65_10deg_hex)))
                                    ELSE IF Len(curves) # Len(srv.paints)
                                    THEN Returned(SrvErr("Could not find all paint data"))
                                    ELSE IF TestMixPanics(curves, Len(srv.paints))
                                    THEN Returned(Panicked)
                                    ELSE Returned(SrvOk([hex_of_mix |-> srv.paints])))
                                   EXCEPT !.queries = got.queries, !.all_colors = got.rows ]
  /\ UNCHANGED <<searchVars, opt, lhtss, auth>>

ServerNext ==
  \/ GetPaintColors
  \/ GetUserPaintSettings
  \/ FindPaintMix
  \/ TestPaintMix

SpecServer == ServerInit /\ [][ServerNext]_vars

NotEnoughPaintDataError == SrvErr("Not enough paint data. Please select more colors.")

\* the call is done and was made by a signed-in user with a settings row
DoneWithSettings(fn) ==
  srv.pc = "done" /\ srv.fn = fn /\ srv.user /\ srv.settings.tag = "Some"

\* the stored selection names a brand and at least one pigment
StoredEntry == FirstEntry(ParseSelected(srv.settings.val.selected_colors).val)
HasSelectedPigments ==
  /\ ParseSelected(srv.settings.val.selected_colors).tag = "Some"
  /\ StoredEntry.tag = "Some"
  /\ ColorNames(StoredEntry.val[2]) # <<>>

\* the selected pigments among the rows loaded, by the state of their blob
SelectedRows ==
  {srv.all_colors[k] : k \in {i \in DOMAIN srv.all_colors :
     srv.all_colors[i].id \in RangeOf(ColorNames(StoredEntry.val[2]))}}
UsableRows == {c \in SelectedRows : c.spectral_curve.kind = "curve"}
GoodRows == {c \in UsableRows : c.spectral_curve.len = Bands}
BadRows ==
  {c \in SelectedRows :
     \/ c.spectral_curve.kind = "corrupt"
     \/ c.spectral_curve.kind = "curve" /\ c.spectral_curve.len # Bands}

C18_BadRowSkipped ==
  (/\ DoneWithSettings("find_paint_mix")
   /\ HasSelectedPigments
   /\ BadRows # {}
   /\ Cardinality(GoodRows) >= 3) =>
    \/ srv.ret = SrvErr("Failed to compute target reflectance")
    \/ /\ srv.searched
       /\ RangeOf(srv.search_pool) = {c.id : c \in GoodRows}

\* C19: get_paint_colors with a brand id outside the allow-list returns an
\* empty list and no error, and no query is built from that id; every query
\* a server function issues names a brand of the list.
C19_UnknownBrand ==
  /\ (srv.pc = "done" /\ srv.fn = "get_paint_colors" /\ srv.brand \notin ValidBrands) =>
       /\ srv.ret.tag = "Ok"
       /\ srv.ret.val = <<>>
       /\ srv.queries = <<>>
  /\ srv.pc \in {"call", "done"} =>
       \A i \in DOMAIN srv.queries : srv.queries[i] \in ValidBrands

\* get_paint_colors returned for a brand id that carries SQL
C19_Witness ==
  /\ srv.pc = "done"
  /\ srv.fn = "get_paint_colors"
  /\ srv.brand = "michael_harding; DROP TABLE users"
  /\ srv.ret.tag = "Ok"

\* the stored selection is the empty text or a text that is not JSON
UnreadableSelection ==
  /\ srv.settings.val.selected_colors.tag = "Some"
  /\ srv.settings.val.selected_colors.val.kind \in {"empty", "malformed"}

\* C20: with a stored selection that is empty or not JSON,
\* get_user_paint_settings, find_paint_mix and test_paint_mix go on as with
\* the default empty settings (no brand, no pigments) and report no error
\* for the payload: the first returns the empty settings, the other two
\* return what they return for an empty selection object.
C20_UnreadableIsDefault ==
  /\ (DoneWithSettings("get_user_paint_settings") /\ UnreadableSelection) =>
       /\ srv.ret.tag = "Ok"
       /\ srv.ret.val.brand = ""
       /\ srv.ret.val.colors = <<>>
  /\ \A fn \in {"find_paint_mix", "test_paint_mix"} :
       (DoneWithSettings(fn) /\ UnreadableSelection) =>
         srv.ret = SrvErr("Invalid paint selection")

\* the place of the recipe of combination i in the returned list, 0 when it
\* was cut
PlaceOf(i) ==
  IF \E k \in DOMAIN ret.list : ret.list[k] = slots[i].val
  THEN CHOOSE k \in DOMAIN ret.list : ret.list[k] = slots[i].val
  ELSE 0

\* C21: recipes with equal error appear in the returned list in the order
\* in which the strategy enumerated their combinations, and among
\* equal-error recipes the earliest-enumerated ones are the ones the top-5
\* cut keeps: a returned recipe has every earlier-enumerated recipe of the
\* same error before it in the list.
C21_StableTies ==
  ReturnedOk =>
    \A i, j \in ProducedIdx :
      (i < j /\ ErrorAt(i) = ErrorAt(j) /\ PlaceOf(j) # 0) =>
        (PlaceOf(i) # 0 /\ PlaceOf(i) < PlaceOf(j))

\* more than five recipes on a finite target, and the cut falls between two
\* recipes of the same error while a better recipe was enumerated after both
C21_Witness ==
  /\ ReturnedOk
  /\ target_reflectance = "finite"
  /\ Len(results) > TopN
  /\ \E i, j, k \in ProducedIdx :
       /\ i < j /\ j < k
       /\ ErrorAt(i) = ErrorAt(j)
       /\ FLt(ErrorAt(k), ErrorAt(i))
       /\ PlaceOf(i) = TopN
       /\ PlaceOf(j) = 0

(* ====================================================================== *)
(* LHTSS (src/src/services/lhtss.rs)                                       *)
(*                                                                         *)
(* One call of compute_reflectance_target or of reflectance_to_xyz.       *)
(* The Newton iterates z are known by their number, z 0 being the zero    *)
(* vector; the squared residual of an iterate is a level of 0..MaxRes:    *)
(* level 0 when every component of F is below ftol, the levels from       *)
(* Salvage on when it is 1.0 or more; NaN once an iterate is not finite.  *)
(* The loop is run with the cap MaxIter in place of the 500 of the        *)
(* source.  create_jacobian and solve_linear_system return a Result, and  *)
(* the loop leaves with their error; the model takes either outcome.      *)
(* A curve is a sequence of numbers.                                       *)
(* ====================================================================== *)
MaxIter == 4

MaxRes == 3

\* the curves reflectance_to_xyz is called with take their values in 0..MaxVal
MaxVal == 2

\* best_error < 1.0: the levels below Salvage
Salvage == 2

\* the bands of the T-matrix
FullBands == 36

\* the bands below 400 nm that the 31-band curve leaves out
PadLow == 2

SrgbInputs == {<<0, 0, 0>>, <<255, 255, 255>>, <<255, 0, 0>>, <<12, 200, 7>>}

\* error of the iterate number k: finite at z = 0
ResVals(k) == IF k = 0 THEN 0..MaxRes ELSE (0..MaxRes) \cup {NaN}

\* f.iter().all(|&x| x.abs() < ftol)
Converged(e) == e = 0

\* a salvage that takes any best iterate
SalvageableAlways(best_error) == TRUE

\* if best_error < 1.0
Salvageable(best_error) == FLt(best_error, Salvage)

\* Array1::from_elem(31, v)
FlatCurve(v) == [tag |-> "Ok", curve |-> <<"flat", v>>]
\* ((z.tanh() + 1) / 2).slice(2..33) of the iterate number k
CurveOfIterate(k) == [tag |-> "Ok", curve |-> <<"iterate", k>>]
\* Err(format!("LHTSS did not converge for RGB({},{},{}), best error: {:.6}", ..))
DidNotConverge(srgb, best_error) ==
  [tag |-> "Err", msg |-> "LHTSS did not converge", srgb |-> srgb, best_error |-> best_error]
\* the errors of create_jacobian and of solve_linear_system
SolverErrors ==
  {[tag |-> "Err", msg |-> "into_shape_with_order"],
   [tag |-> "Err", msg |-> "SVD failed to compute U"],
   [tag |-> "Err", msg |-> "SVD failed to compute V^T"]}

\* a pad that leaves zeros in the added bands
PadWithZeros(reflectance) ==
  [k \in 1..FullBands |->
     IF k <= PadLow \/ k > PadLow + Bands THEN 0 ELSE reflectance[k - PadLow]]

\* full[2..33] = reflectance; full[0] = full[1] = reflectance[0];
\* full[33] = full[34] = full[35] = reflectance[30]
Pad(reflectance) ==
  [k \in 1..FullBands |->
     IF k <= PadLow THEN reflectance[1]
     ELSE IF k > PadLow + Bands THEN reflectance[Bands]
     ELSE reflectance[k - PadLow]]

\* let r = if reflectance.len() == 31 { padded } else { reflectance.clone() }
PaddedIfNeeded(reflectance) ==
  IF Len(reflectance) = Bands THEN Pad(reflectance) ELSE reflectance

\* self.t_matrix.dot(&r): the product of the 3x36 matrix and r; a vector of
\* another length makes dot panic
TDot(r) == IF Len(r) = FullBands THEN [tag |-> "Ok", t_dot |-> r] ELSE Panicked

\* the curves of the calls: a ramp of some start and slope
Curves ==
  { [k \in 1..n |-> (a + b * k) % (MaxVal + 1)] :
      n \in {Bands - 1, Bands, FullBands}, a \in 0..MaxVal, b \in 0..MaxVal }

LhtssIdleElse ==
  /\ paint_data = <<>>
  /\ mix_choice = 1
  /\ target_reflectance = "finite"
  /\ pc = "idle"
  /\ branch = "none"
  /\ combinations = <<>>
  /\ slots = <<>>
  /\ overtaken = FALSE
  /\ results = <<>>
  /\ ret = NoReturn
  /\ opt = Idle
  /\ srv = Idle
  /\ auth = Idle

LhtssCall(fn, srgb, role, reflectance) ==
  [pc |-> "call", fn |-> fn, srgb |-> srgb, role |-> role, reflectance |-> reflectance,
   iter |-> 0, errors |-> <<>>, best_z |-> 0, best_error |-> MaxRes + 1,
   r |-> <<>>, ret |-> NoReturn]

LhtssInit ==
  /\ LhtssIdleElse
  /\ lhtss \in
       {LhtssCall("compute_reflectance_target", c, "none", <<>>) : c \in SrgbInputs}
       \cup {LhtssCall("reflectance_to_xyz", <<>>, role, cv) :
               role \in {"mixed", "target"}, cv \in Curves}

\* compute_reflectance_target: the two special cases, else the loop starts
ComputeReflectanceTarget ==
  /\ lhtss.pc = "call"
  /\ lhtss.fn = "compute_reflectance_target"
  /\ lhtss' =
       IF \A i \in 1..3 : lhtss.srgb[i] = 0
       THEN [lhtss EXCEPT !.pc = "done", !.ret = FlatCurve("0.0001")]
       ELSE IF \A i \in 1..3 : lhtss.srgb[i] = 255
       THEN [lhtss EXCEPT !.pc = "done", !.ret = FlatCurve("1.0")]
       ELSE [lhtss EXCEPT !.pc = "loop"]
  /\ UNCHANGED <<searchVars, opt, srv, auth>>

\* one pass of the loop on the iterate number iter: residual, best so far,
\* Jacobian and linear solve (either may fail), step, convergence test on
\* the residual computed before the step
NewtonStep ==
  /\ lhtss.pc = "loop"
  /\ lhtss.iter < MaxIter
  /\ \E e \in ResVals(lhtss.iter) :
     \E solved \in {[tag |-> "Ok"]} \cup SolverErrors :
       LET better == FLt(e, lhtss.best_error)
           tracked == [lhtss EXCEPT
                         !.errors = Append(@, e),
                         !.best_error = IF better THEN e ELSE @,
                         !.best_z = IF better THEN lhtss.iter ELSE @]
       IN lhtss' =
            IF solved.tag = "Err"
            THEN [tracked EXCEPT !.pc = "done", !.ret = solved]
            ELSE IF Converged(e)
            THEN [tracked EXCEPT !.pc = "done", !.iter = @ + 1,
                                 !.ret = CurveOfIterate(lhtss.iter + 1)]
            ELSE [tracked EXCEPT !.iter = @ + 1]
  /\ UNCHANGED <<searchVars, opt, srv, auth>>

\* after the loop: the best iterate if its residual is below 1.0, else the
\* diagnostic
LoopExhausted ==
  /\ lhtss.pc = "loop"
  /\ lhtss.iter = MaxIter
  /\ lhtss' = [lhtss EXCEPT
                 !.pc = "done",
                 !.ret = IF Salvageable(lhtss.best_error)
                         THEN CurveOfIterate(lhtss.best_z)
                         ELSE DidNotConverge(lhtss.srgb, lhtss.best_error)]
  /\ UNCHANGED <<searchVars, opt, srv, auth>>

\* reflectance_to_xyz, as create_result calls it on the mixed and on the
\* target reflectance
ReflectanceToXyz ==
  /\ lhtss.pc = "call"
  /\ lhtss.fn = "reflectance_to_xyz"
  /\ lhtss' = [lhtss EXCEPT !.pc = "done",
                            !.r = PaddedIfNeeded(lhtss.reflectance),
                            !.ret = TDot(PaddedIfNeeded(lhtss.reflectance))]
  /\ UNCHANGED <<searchVars, opt, srv, auth>>

LhtssNext ==
  \/ ComputeReflectanceTarget
  \/ NewtonStep
  \/ LoopExhausted
  \/ ReflectanceToXyz

SpecLhtss == LhtssInit /\ [][LhtssNext]_vars

(* ---------------------------------------------------------------------- *)
(* Properties of compute_reflectance_target and reflectance_to_xyz         *)
(* ---------------------------------------------------------------------- *)
TargetDone == lhtss.pc = "done" /\ lhtss.fn = "compute_reflectance_target"

TargetFailed == TargetDone /\ lhtss.ret.tag = "Err"

\* the loop ran all its passes and none left it
Exhausted ==
  /\ TargetDone
  /\ lhtss.iter = MaxIter
  /\ Len(lhtss.errors) = MaxIter
  /\ lhtss.ret \notin SolverErrors
  /\ \A k \in 1..MaxIter : ~Converged(lhtss.errors[k])

\* the iterate number k has the smallest squared residual seen
SmallestSeen(k) ==
  /\ k + 1 \in DOMAIN lhtss.errors
  /\ lhtss.errors[k + 1] # NaN
  /\ \A j \in DOMAIN lhtss.errors : ~FLt(lhtss.errors[j], lhtss.errors[k + 1])

XyzDone == lhtss.pc = "done" /\ lhtss.fn = "reflectance_to_xyz"

\* C17: reflectance_to_xyz pads a 31-band curve R to 36 bands, bands 0-1
\* equal to R[0], bands 2..32 equal to R[0..30] in order, bands 33-35 equal
\* to R[30], and multiplies T by the padded curve; the mixed and the target
\* reflectance of a recipe's error are padded alike
C17_Padding ==
  (XyzDone /\ Len(lhtss.reflectance) = 31 /\ lhtss.role \in {"mixed", "target"}) =>
    /\ Len(lhtss.r) = 36
    /\ lhtss.r[1] = lhtss.reflectance[1]
    /\ lhtss.r[2] = lhtss.reflectance[1]
    /\ \A i \in 1..31 : lhtss.r[i + 2] = lhtss.reflectance[i]
    /\ \A k \in 34..36 : lhtss.r[k] = lhtss.reflectance[31]
    /\ lhtss.ret = [tag |-> "Ok", t_dot |-> lhtss.r]

\* a 31-band mixed curve whose end bands differ from their neighbours and
\* from zero was padded
C17_Witness ==
  /\ XyzDone
  /\ lhtss.role = "mixed"
  /\ Len(lhtss.reflectance) = 31
  /\ lhtss.reflectance[1] # lhtss.reflectance[2]
  /\ lhtss.reflectance[31] # lhtss.reflectance[30]
  /\ lhtss.reflectance[1] # 0
  /\ lhtss.ret.tag = "Ok"

\* the call left the loop on the convergence test: the last residual
\* measured had every component below ftol
ReportedConvergence ==
  /\ TargetDone
  /\ lhtss.errors # <<>>
  /\ Converged(lhtss.errors[Len(lhtss.errors)])
  /\ lhtss.ret.tag = "Ok"

\* C24: when compute_reflectance_target reports convergence, the curve it
\* returns is r(z)[2..33] of the iterate z at which the converged residual
\* was evaluated (the iterate of the last pass), not of an iterate a further
\* Newton update produced.
C24_ConvergedIterate ==
  ReportedConvergence => lhtss.ret = CurveOfIterate(Len(lhtss.errors) - 1)

(* ====================================================================== *)
(* Accounts (src/src/services/auth.rs, src/src/server_fns/auth.rs,        *)
(* src/src/db/mod.rs)                                                      *)
(*                                                                         *)
(* One account, the tokens table, a clock, and MaxReqs requests of the    *)
(* server functions login, reset_password, verify_email and               *)
(* request_password_reset.  Every statement sent to the database is one   *)
(* step; the requests interleave between their statements, or run one     *)
(* after the other when auth.sequential holds.  The statements on the     *)
(* users and tokens tables are taken to succeed, but for the INSERT of    *)
(* create_token, whose failure request_password_reset looks at, as it     *)
(* does at the failure of the mailer.  An Argon2 hash is known by the     *)
(* password it verifies, a SHA-256 digest by the token it was made from.  *)
(* The clock counts ticks; the lock lasts LockSpan ticks, a reset token   *)
(* ResetSpan ticks.                                                        *)
(* ====================================================================== *)
MaxReqs == 2

MaxTime == 1

\* attempts >= 5
LockThreshold == 5

\* Duration::minutes(15), in ticks
LockSpan == 2

\* Duration::hours(1) of create_reset_token, in ticks
ResetSpan == 1

Procs == 1..MaxReqs

\* the email the account was registered with (create_user binds
\* email.to_lowercase()), the ones the requests present
StoredEmail == <<"a">>
Emails == {<<"A">>, <<"n">>}

\* hash_password: Argon2 with a fresh salt
HashPassword(password) == [argon2 |-> password]
\* verify_password
VerifyPassword(password, hash) == hash = HashPassword(password)

\* hash_token: hex of SHA-256
HashToken(token) == <<"sha256", token>>

\* a row of users
UserRow(fa, locked, verified) ==
  [id |-> "u1", email |-> StoredEmail, password_hash |-> HashPassword("good"),
   email_verified |-> verified, failed_attempts |-> fa, locked_until |-> locked]

\* the rows an account can be left in by logins made one after the other
UserRows ==
  { UserRow(st[1], st[2], v) :
      st \in {<<0, None>>, <<LockThreshold - 1, None>>, <<LockThreshold, Some(1)>>},
      v \in BOOLEAN }

\* a row of tokens
TokenRow(id, user_id, kind, token, expires_at) ==
  [id |-> id, user_id |-> user_id, kind |-> kind, hash |-> HashToken(token),
   expires_at |-> expires_at]

\* the tokens issued before: a reset token "r", which expires after the
\* first tick, and a verification token "v"
TokenTables ==
  { {TokenRow(101, "u1", "reset", <<"r", 0>>, 0),
     TokenRow(102, "u1", "verify", <<"v", 0>>, MaxTime + 1)} }

\* SELECT * FROM users WHERE email = ? with email.to_lowercase() bound
GetUserByEmail(user, email) ==
  IF user.email = ToLowercase(email) THEN Some(user) ELSE None

\* SELECT id, user_id, expires_at FROM tokens WHERE hash = ? AND kind = ?
GetToken(tokens, hash, kind) ==
  IF \E t \in tokens : t.hash = hash /\ t.kind = kind
  THEN Some(CHOOSE t \in tokens : t.hash = hash /\ t.kind = kind)
  ELSE None

\* parse_from_rfc3339(locked).map(|t| t > Utc::now()).unwrap_or(false)
LockedAt(user, now) ==
  user.locked_until.tag = "Some" /\ user.locked_until.val > now

\* SessionUser { id, email }
SessionUser(user) == [id |-> user.id, email |-> user.email]
\* a session that already holds a user
OldSession == Some([id |-> "u0", email |-> <<"o">>])

\* the requests: a server function and its arguments
LoginRequests ==
  { [op |-> "login", email |-> <<"A">>, password |-> "good", token |-> <<>>, session |-> ss] :
      ss \in {None, OldSession} }
  \cup { [op |-> "login", email |-> e, password |-> "bad", token |-> <<>>, session |-> None] :
           e \in Emails }
TokenRequests ==
  { [op |-> "reset_password", email |-> <<>>, password |-> "new", token |-> t, session |-> None] :
      t \in {<<"r", 0>>, <<"v", 0>>, <<"x", 0>>} }
  \cup { [op |-> "verify_email", email |-> <<>>, password |-> "", token |-> t, session |-> None] :
           t \in {<<"r", 0>>, <<"v", 0>>} }
ResetRequests ==
  { [op |-> "request_password_reset", email |-> e, password |-> "", token |-> <<>>,
     session |-> None] : e \in Emails }
Requests == LoginRequests \cup TokenRequests \cup ResetRequests
RECURSIVE ListOf(_)
ListOf(S) ==
  IF S = {} THEN <<>>
  ELSE LET x == CHOOSE y \in S : TRUE IN <<x>> \o ListOf(S \ {x})
RequestList == ListOf(Requests)

\* the requests of a run: requests that interleave are taken in the order
\* of the list, since it does not matter which of them is which
RequestChoices(sequential) ==
  { ix \in [Procs -> DOMAIN RequestList] :
      sequential \/ \A p, q \in Procs : p < q => ix[p] <= ix[q] }

\* a request before its first statement
Started(rq) ==
  [op |-> rq.op, email |-> rq.email, password |-> rq.password, token |-> rq.token,
   session0 |-> rq.session, session |-> rq.session, pc |-> "start",
   user |-> None, found |-> None, created |-> FALSE,
   matched |-> FALSE, attempts |-> 0, locked |-> None, verified_token |-> FALSE,
   mailed |-> FALSE, checked_at |-> 0,
   seen |-> None, left |-> None, ret |-> NoReturn]

AuthIdleElse ==
  /\ paint_data = <<>>
  /\ mix_choice = 1
  /\ target_reflectance = "finite"
  /\ pc = "idle"
  /\ branch = "none"
  /\ combinations = <<>>
  /\ slots = <<>>
  /\ overtaken = FALSE
  /\ results = <<>>
  /\ ret = NoReturn
  /\ opt = Idle
  /\ lhtss = Idle
  /\ srv = Idle

\* wrong_checked counts the wrong passwords verified against the hash since
\* the counter was last reset, due_until is the time up to which the lock is
\* owed once five were verified, guessed_while_due records a password
\* verified before that time
AuthInitOf(sequential) ==
  /\ AuthIdleElse
  /\ \E user \in UserRows, tokens \in TokenTables, ix \in RequestChoices(sequential) :
       auth = [pc |-> "serving", sequential |-> sequential,
               user |-> user, tokens |-> tokens, now |-> 0,
               reqs |-> [p \in Procs |-> Started(RequestList[ix[p]])],
               wrong_checked |-> user.failed_attempts,
               due_until |-> IF user.locked_until.tag = "Some"
                             THEN user.locked_until.val ELSE 0,
               guessed_while_due |-> FALSE]

AuthInit == AuthInitOf(FALSE)
AuthInitSequential == AuthInitOf(TRUE)

\* Ok(())
Unit == [unit |-> TRUE]

\* the requests run one after the other when auth.sequential holds
Turn(p) ==
  auth.sequential => \A q \in Procs : q < p => auth.reqs[q].pc = "done"

\* the state after a statement of request p: its locals, the tables; for
\* requests made one after the other, seen and left keep the tables as the
\* request found them and as it left them
Step(p, r2, user2, tokens2) ==
  LET r1 == IF auth.sequential /\ auth.reqs[p].pc = "start"
            THEN [r2 EXCEPT !.seen = Some([user |-> auth.user, tokens |-> auth.tokens,
                                           now |-> auth.now])]
            ELSE r2
      r3 == IF auth.sequential /\ r2.pc = "done"
            THEN [r1 EXCEPT !.left = Some([user |-> user2, tokens |-> tokens2])]
            ELSE r1
  IN [auth EXCEPT !.user = user2, !.tokens = tokens2, !.reqs[p] = r3]

\* a request ends with a result
Done(r, result) == [r EXCEPT !.pc = "done", !.ret = result]

\* a login that locks ten attempts late
LockDueLate(attempts) == attempts >= LockThreshold + 10

\* if attempts >= 5
LockDue(attempts) == attempts >= LockThreshold

\* auth::login up to the password check: get_user_by_email, the lockout
\* test, verify_password, and the values of the UPDATE to come
LoginCheck(p) ==
  /\ auth.pc = "serving"
  /\ Turn(p)
  /\ auth.reqs[p].pc = "start"
  /\ auth.reqs[p].op = "login"
  /\ LET r == auth.reqs[p]
         u == GetUserByEmail(auth.user, r.email)
         wrong == auth.wrong_checked + 1
     IN auth' =
          IF u.tag = "None"
          THEN Step(p, Done(r, SrvErr("Invalid credentials")), auth.user, auth.tokens)
          ELSE IF LockedAt(u.val, auth.now)
          THEN Step(p, Done([r EXCEPT !.user = u], SrvErr("Account locked")),
                    auth.user, auth.tokens)
          ELSE IF ~VerifyPassword(r.password, u.val.password_hash)
          THEN [Step(p, [r EXCEPT !.pc = "write", !.user = u,
                                  !.attempts = u.val.failed_attempts + 1,
                                  !.locked = IF LockDue(u.val.failed_attempts + 1)
                                             THEN Some(auth.now + LockSpan) ELSE None,
                                  !.checked_at = auth.now],
                     auth.user, auth.tokens)
                  EXCEPT !.wrong_checked = wrong,
                         !.due_until = IF wrong >= LockThreshold
                                       THEN auth.now + LockSpan ELSE @,
                         !.guessed_while_due = @ \/ auth.due_until > auth.now]
          ELSE Step(p, [r EXCEPT !.pc = "write", !.user = u, !.matched = TRUE,
                                 !.attempts = 0, !.locked = None,
                                 !.checked_at = auth.now],
                    auth.user, auth.tokens)
  /\ UNCHANGED <<searchVars, opt, lhtss, srv>>

\* update_failed_attempts, its result dropped; login returns the error, or
\* the user as it was read
LoginUpdate(p) ==
  /\ auth.pc = "serving"
  /\ auth.reqs[p].pc = "write"
  /\ LET r == auth.reqs[p]
         user2 == [auth.user EXCEPT !.failed_attempts = r.attempts,
                                    !.locked_until = r.locked]
     IN auth' =
          IF r.matched
          THEN [Step(p, [r EXCEPT !.pc = "session"], user2, auth.tokens)
                  EXCEPT !.wrong_checked = 0]
          ELSE Step(p, Done(r, SrvErr("Invalid credentials")), user2, auth.tokens)
  /\ UNCHANGED <<searchVars, opt, lhtss, srv>>

\* a test that takes every account for verified
EmailVerifiedAlways(user) == TRUE

\* user.email_verified
EmailVerified(user) == user.email_verified

\* an expiry test that lets every token through
ExpiredAtNever(row, now) == FALSE

\* parse_from_rfc3339(&expires).map(|t| t < Utc::now()).unwrap_or(true)
ExpiredAt(row, now) == row.expires_at < now

\* the server function login after auth::login returned Ok(user): the
\* email_verified test, session.insert
LoginSession(p) ==
  /\ auth.pc = "serving"
  /\ auth.reqs[p].pc = "session"
  /\ LET r == auth.reqs[p]
         user == r.user.val
     IN \E inserted \in BOOLEAN :
          auth' =
            IF ~EmailVerified(user)
            THEN Step(p, Done(r, SrvErr("Please verify your email first")),
                      auth.user, auth.tokens)
            ELSE IF inserted
            THEN Step(p, Done([r EXCEPT !.session = Some(SessionUser(user))],
                              SrvOk(SessionUser(user))),
                      auth.user, auth.tokens)
            ELSE Step(p, Done(r, SrvErr("session")), auth.user, auth.tokens)
  /\ UNCHANGED <<searchVars, opt, lhtss, srv>>

\* the kind verify_email and reset_password pass to verify_token
KindOf(op) == IF op = "reset_password" THEN "reset" ELSE "verify"

\* verify_token up to the expiry test: get_token, then expires < now
TokenLookup(p) ==
  /\ auth.pc = "serving"
  /\ Turn(p)
  /\ auth.reqs[p].pc = "start"
  /\ auth.reqs[p].op \in {"reset_password", "verify_email"}
  /\ LET r == auth.reqs[p]
         t == GetToken(auth.tokens, HashToken(r.token), KindOf(r.op))
     IN auth' =
          IF t.tag = "None" \/ ExpiredAt(t.val, auth.now)
          THEN Step(p, Done(r, SrvErr("Invalid or expired token")), auth.user, auth.tokens)
          ELSE Step(p, [r EXCEPT !.pc = "delete", !.found = t], auth.user, auth.tokens)
  /\ UNCHANGED <<searchVars, opt, lhtss, srv>>

\* delete_token, its result dropped; verify_token returns Ok(user_id)
TokenDelete(p) ==
  /\ auth.pc = "serving"
  /\ auth.reqs[p].pc = "delete"
  /\ LET r == auth.reqs[p]
     IN auth' = Step(p, [r EXCEPT !.pc = "apply", !.verified_token = TRUE],
                     auth.user, {t \in auth.tokens : t.id # r.found.val.id})
  /\ UNCHANGED <<searchVars, opt, lhtss, srv>>

\* verify_email: verify_user_email; reset_password: hash_password, which
\* may fail, then update_password
TokenApply(p) ==
  /\ auth.pc = "serving"
  /\ auth.reqs[p].pc = "apply"
  /\ LET r == auth.reqs[p]
         mine == auth.user.id = r.found.val.user_id
     IN \E hashed \in BOOLEAN :
          auth' =
            IF r.op = "verify_email"
            THEN Step(p, Done(r, SrvOk(Unit)),
                      IF mine THEN [auth.user EXCEPT !.email_verified = TRUE]
                      ELSE auth.user,
                      auth.tokens)
            ELSE IF hashed
            THEN Step(p, Done(r, SrvOk(Unit)),
                      IF mine
                      THEN [auth.user EXCEPT !.password_hash = HashPassword(r.password)]
                      ELSE auth.user,
                      auth.tokens)
            ELSE Step(p, Done(r, SrvErr("hash")), auth.user, auth.tokens)
  /\ UNCHANGED <<searchVars, opt, lhtss, srv>>

\* request_password_reset: get_user_by_email; Ok(()) when there is no user
ResetRequestLookup(p) ==
  /\ auth.pc = "serving"
  /\ Turn(p)
  /\ auth.reqs[p].pc = "start"
  /\ auth.reqs[p].op = "request_password_reset"
  /\ LET r == auth.reqs[p]
         u == GetUserByEmail(auth.user, r.email)
     IN auth' =
          IF u.tag = "None"
          THEN Step(p, Done(r, SrvOk(Unit)), auth.user, auth.tokens)
          ELSE Step(p, [r EXCEPT !.pc = "token", !.user = u], auth.user, auth.tokens)
  /\ UNCHANGED <<searchVars, opt, lhtss, srv>>

\* a result that passes the failure of create_reset_token on
ResetResultOfCreation(created) ==
  IF created THEN SrvOk(Unit) ELSE SrvErr("create_token")

\* Ok(()) whatever create_reset_token and send_password_reset returned
ResetResult(created) == SrvOk(Unit)

\* create_reset_token, which may fail, and on Ok send_password_reset,
\* which may fail; then Ok(())
ResetRequestToken(p) ==
  /\ auth.pc = "serving"
  /\ auth.reqs[p].pc = "token"
  /\ LET r == auth.reqs[p]
     IN \E created \in BOOLEAN, sent \in BOOLEAN :
          auth' = Step(p, Done([r EXCEPT !.created = created,
                                         !.mailed = created /\ sent],
                               ResetResult(created)),
                       auth.user,
                       IF created
                       THEN auth.tokens \cup
                              {TokenRow(p, r.user.val.id, "reset", <<"n", p>>,
                                        auth.now + ResetSpan)}
                       ELSE auth.tokens)
  /\ UNCHANGED <<searchVars, opt, lhtss, srv>>

\* time passes
Tick ==
  /\ auth.pc = "serving"
  /\ auth.now < MaxTime
  /\ auth' = [auth EXCEPT !.now = @ + 1]
  /\ UNCHANGED <<searchVars, opt, lhtss, srv>>

AuthNext ==
  \/ \E p \in Procs : LoginCheck(p)
  \/ \E p \in Procs : LoginUpdate(p)
  \/ \E p \in Procs : LoginSession(p)
  \/ \E p \in Procs : TokenLookup(p)
  \/ \E p \in Procs : TokenDelete(p)
  \/ \E p \in Procs : TokenApply(p)
  \/ \E p \in Procs : ResetRequestLookup(p)
  \/ \E p \in Procs : ResetRequestToken(p)
  \/ Tick

\* requests that interleave between their statements
SpecAuth == AuthInit /\ [][AuthNext]_vars

\* requests made one after the other
SpecAuthSequential == AuthInitSequential /\ [][AuthNext]_vars

(* ---------------------------------------------------------------------- *)
(* Properties of the accounts                                              *)
(* ---------------------------------------------------------------------- *)
AccountLockedError == SrvErr("Account locked")
InvalidCredentialsError == SrvErr("Invalid credentials")
InvalidTokenError == SrvErr("Invalid or expired token")

\* the login requests on the account that are over
LoginsDone ==
  {p \in Procs : /\ auth.reqs[p].op = "login"
                 /\ auth.reqs[p].pc = "done"
                 /\ GetUserByEmail(auth.reqs[p].seen.val.user, auth.reqs[p].email).tag = "Some"}

\* the lock of the row was in the future at that time
InFuture(row, now) == row.locked_until.tag = "Some" /\ row.locked_until.val > now

\* C25: for login attempts made one after the other on one account, a
\* failed password check that brings failed_attempts to 5 or more sets
\* locked_until to 15 minutes (LockSpan) after the check, and a login
\* attempt made while locked_until is in the future returns AccountLocked,
\* with the correct password too, and leaves failed_attempts and
\* locked_until as they were.
C25_Lockout ==
  \A p \in LoginsDone :
    LET r == auth.reqs[p]
        before == r.seen.val.user
        after == r.left.val.user
    IN /\ InFuture(before, r.seen.val.now) =>
            /\ r.ret = AccountLockedError
            /\ after.failed_attempts = before.failed_attempts
            /\ after.locked_until = before.locked_until
       /\ (~InFuture(before, r.seen.val.now) /\ r.ret = InvalidCredentialsError) =>
            /\ after.failed_attempts = before.failed_attempts + 1
            /\ after.failed_attempts >= 5 =>
                 after.locked_until = Some(r.seen.val.now + LockSpan)

\* a wrong password brought failed_attempts from 4 to 5 and locked the
\* account; the next attempt, with the correct password, was refused
C25_Witness ==
  /\ auth.pc = "serving"
  /\ auth.sequential
  /\ {1, 2} \subseteq LoginsDone
  /\ auth.reqs[1].seen.val.user.failed_attempts = 4
  /\ auth.reqs[1].left.val.user.locked_until.tag = "Some"
  /\ auth.reqs[2].password = "good"
  /\ auth.reqs[2].ret = AccountLockedError

\* no login stands between its password check and its UPDATE
NoLoginInFlight == \A p \in Procs : auth.reqs[p].pc # "write"

\* C26: in any interleaving of concurrent logins on one account, at most 5
\* wrong passwords are checked against the hash before the account is
\* locked: no increment of failed_attempts is lost, and no password is
\* checked while the lock is owed.
C26_NoExtraGuess ==
  /\ ~auth.guessed_while_due
  /\ NoLoginInFlight => auth.user.failed_attempts >= auth.wrong_checked

\* the requests whose verify_token returned Ok
TokenUses ==
  {p \in Procs : /\ auth.reqs[p].op \in {"reset_password", "verify_email"}
                 /\ auth.reqs[p].verified_token}

\* C27: a token authorizes at most one successful verify_token: of the
\* calls that present one token, one after the other or concurrently, at
\* most one succeeds.
C27_SingleUse ==
  \A p, q \in TokenUses :
    (auth.reqs[p].token = auth.reqs[q].token /\ auth.reqs[p].op = auth.reqs[q].op) => p = q

\* the reset_password requests that are over
ResetsDone ==
  {p \in Procs : auth.reqs[p].op = "reset_password" /\ auth.reqs[p].pc = "done"}

\* the token matches a stored token of kind "reset" that has not expired
ValidResetToken(tokens, token, now) ==
  \E t \in tokens : t.hash = HashToken(token) /\ t.kind = "reset" /\ ~(t.expires_at < now)

\* C28: reset_password changes the password_hash only if the token matches
\* a stored token of kind "reset" that has not expired; with an unknown
\* token, an expired token or a token of kind "verify" it returns
\* InvalidToken and leaves the password_hash and the tokens table as they
\* were.
C28_ResetFrame ==
  \A p \in ResetsDone :
    LET r == auth.reqs[p]
        before == r.seen.val
        after == r.left.val
    IN /\ ~ValidResetToken(before.tokens, r.token, before.now) =>
            /\ r.ret = InvalidTokenError
            /\ after.user = before.user
            /\ after.tokens = before.tokens
       /\ after.user.password_hash # before.user.password_hash =>
            ValidResetToken(before.tokens, r.token, before.now)

\* two resets made one after the other: one with the reset token after it
\* expired, refused, and one with the verification token, refused
C28_Witness ==
  /\ auth.pc = "serving"
  /\ auth.sequential
  /\ ResetsDone = {1, 2}
  /\ auth.reqs[1].token = <<"r", 0>>
  /\ auth.reqs[1].seen.val.now > 0
  /\ auth.reqs[1].ret = InvalidTokenError
  /\ auth.reqs[2].token = <<"v", 0>>
  /\ auth.reqs[2].ret = InvalidTokenError

\* C29: the server function login stores a user in the session only when
\* auth::login succeeded (the account exists, is not locked and the
\* password matches) and the account's email_verified flag is true; on
\* every error path, a correct password for an unverified account
\* included, the session is left as it was.
C29_SessionOnlyOnSuccess ==
  \A p \in Procs :
    LET r == auth.reqs[p]
    IN /\ r.session # r.session0 =>
            /\ r.op = "login"
            /\ r.user.tag = "Some"
            /\ ~LockedAt(r.user.val, r.checked_at)
            /\ VerifyPassword(r.password, r.user.val.password_hash)
            /\ r.user.val.email_verified
            /\ r.session = Some(SessionUser(r.user.val))
            /\ r.ret = SrvOk(SessionUser(r.user.val))
       /\ (r.pc = "done" /\ r.ret.tag = "Err") => r.session = r.session0

\* a correct password for an unverified account: refused, and the session
\* still holds the user it held
C29_Witness ==
  /\ auth.pc = "serving"
  /\ \E p \in Procs :
       /\ auth.reqs[p].op = "login"
       /\ auth.reqs[p].pc = "done"
       /\ auth.reqs[p].matched
       /\ ~auth.reqs[p].user.val.email_verified
       /\ auth.reqs[p].ret = SrvErr("Please verify your email first")
       /\ auth.reqs[p].session = OldSession

\* the request_password_reset requests that are over
ResetRequestsDone ==
  {p \in Procs : auth.reqs[p].op = "request_password_reset" /\ auth.reqs[p].pc = "done"}

\* C30: request_password_reset returns the same Ok(()) whether or not the
\* email belongs to a registered user and whether or not the creation of
\* the token or the delivery of the mail failed.
C30_SameResult ==
  \A p \in ResetRequestsDone : auth.reqs[p].ret = SrvOk(Unit)

\* the requests are over: one for an unknown email, one for the account
\* with a failed token creation or a failed delivery
C30_Witness ==
  /\ auth.pc = "serving"
  /\ ResetRequestsDone = Procs
  /\ \E p \in Procs : auth.reqs[p].user.tag = "None"
  /\ \E p \in Procs :
       /\ auth.reqs[p].user.tag = "Some"
       /\ ~auth.reqs[p].mailed

====
